---------------------------- MODULE Spec2Model ----------------------------
(***************************************************************************)
(* A model of the deterministic scoring pipeline of the SME financial-     *)
(* health backend: FinancialAnalyzer (ratios, cash flow, health score),    *)
(* CreditScoringEngine (credit score) and the analysis routes that call    *)
(* them over the database.                                                 *)
(*                                                                         *)
(* Numbers.  Python floats are modelled as exact rationals <<n, d>> with   *)
(* d > 0 in lowest terms; <<0, 0>> stands for a raised ZeroDivisionError.  *)
(* Money amounts are integers.  Text (labels, categories) is a sequence of *)
(* one-character strings so that lower() and the substring test `in` are   *)
(* computed, not assumed.  A Python dict is a function; d.get(k, x) is     *)
(* Get(d, k, x).  None is <<>> and a present value v is <<v>> where a      *)
(* column is nullable.                                                     *)
(***************************************************************************)
EXTENDS Integers, Sequences, FiniteSets, TLC

VARIABLES
    companies,        \* table Company: id -> row
    statements,       \* table FinancialStatement: set of rows
    transactions,     \* table Transaction: row contents -> number of such rows
    recommendations,  \* table Recommendation: set of rows
    now,              \* datetime.utcnow(), in days
    call,             \* the operation being served and its arguments
    ret               \* its outcome: idle, a returned value, or a raised error

vars == <<companies, statements, transactions, recommendations, now, call, ret>>

-----------------------------------------------------------------------------
(* Rational arithmetic standing for Python float arithmetic *)

Abs(i) == IF i < 0 THEN -i ELSE i

RECURSIVE GCD(_, _)
GCD(a, b) == IF b = 0 THEN a ELSE GCD(b, a % b)

ZeroDivisionError == <<0, 0>>

Norm(n, d) ==
    IF d = 0 THEN ZeroDivisionError
    ELSE LET s == IF d < 0 THEN -1 ELSE 1
             g == GCD(Abs(n), Abs(d))
         IN  <<(s * n) \div g, (s * d) \div g>>

R(i) == <<i, 1>>

IsNum(x) == x[2] > 0

\* x / y
RDiv(x, y) ==
    IF ~IsNum(x) \/ ~IsNum(y) \/ y[1] = 0 THEN ZeroDivisionError
    ELSE Norm(x[1] * y[2], x[2] * y[1])

\* x * y
RMul(x, y) ==
    IF ~IsNum(x) \/ ~IsNum(y) THEN ZeroDivisionError
    ELSE Norm(x[1] * y[1], x[2] * y[2])

\* x - y
RSub(x, y) ==
    IF ~IsNum(x) \/ ~IsNum(y) THEN ZeroDivisionError
    ELSE Norm(x[1] * y[2] - y[1] * x[2], x[2] * y[2])

\* x + y
RAdd(x, y) ==
    IF ~IsNum(x) \/ ~IsNum(y) THEN ZeroDivisionError
    ELSE Norm(x[1] * y[2] + y[1] * x[2], x[2] * y[2])

RGe(x, y) == x[1] * y[2] >= y[1] * x[2]
RGt(x, y) == x[1] * y[2] > y[1] * x[2]
RLe(x, y) == RGe(y, x)
RLt(x, y) == RGt(y, x)
REq(x, y) == x[1] * y[2] = y[1] * x[2]

-----------------------------------------------------------------------------
(* Python dicts and strings *)

EmptyMap == <<>>

Has(m, k) == k \in DOMAIN m

Get(m, k, dflt) == IF k \in DOMAIN m THEN m[k] ELSE dflt

\* str.lower() of one character
LowerChar(c) ==
    CASE c = "A" -> "a" [] c = "B" -> "b" [] c = "C" -> "c" [] c = "D" -> "d"
      [] c = "E" -> "e" [] c = "F" -> "f" [] c = "G" -> "g" [] c = "H" -> "h"
      [] c = "I" -> "i" [] c = "J" -> "j" [] c = "K" -> "k" [] c = "L" -> "l"
      [] c = "M" -> "m" [] c = "N" -> "n" [] c = "O" -> "o" [] c = "P" -> "p"
      [] c = "Q" -> "q" [] c = "R" -> "r" [] c = "S" -> "s" [] c = "T" -> "t"
      [] c = "U" -> "u" [] c = "V" -> "v" [] c = "W" -> "w" [] c = "X" -> "x"
      [] c = "Y" -> "y" [] c = "Z" -> "z" [] OTHER -> c

\* str.lower()
Lower(s) == [i \in 1..Len(s) |-> LowerChar(s[i])]

\* sub in s
Contains(sub, s) ==
    \E i \in 0..(Len(s) - Len(sub)) :
        \A j \in 1..Len(sub) : s[i + j] = sub[j]

\* sum(v for k, v in m.items() if k \in keys)
RECURSIVE SumKeys(_, _)
SumKeys(m, keys) ==
    IF keys = {} THEN 0
    ELSE LET k == CHOOSE x \in keys : TRUE
         IN  m[k] + SumKeys(m, keys \ {k})

\* sum(m.values())
SumValues(m) == SumKeys(m, DOMAIN m)

kw_cash == <<"c", "a", "s", "h">>
kw_bank == <<"b", "a", "n", "k">>
kw_inventory == <<"i", "n", "v", "e", "n", "t", "o", "r", "y">>
kw_receivable == <<"r", "e", "c", "e", "i", "v", "a", "b", "l", "e">>


-----------------------------------------------------------------------------
(* FinancialAnalyzer: ratios *)

\* the label -> amount mapping at balance_sheet[group][category]
Items(balance_sheet, group, category) ==
    Get(Get(balance_sheet, group, EmptyMap), category, EmptyMap)

\* an item is added once for every keyword its label contains
RECURSIVE SumMatching_PerKeyword(_, _)
SumMatching_PerKeyword(items, kws) ==
    IF kws = {} THEN 0
    ELSE LET kw == CHOOSE x \in kws : TRUE
         IN  SumKeys(items, {k \in DOMAIN items : Contains(kw, Lower(k))})
             + SumMatching_PerKeyword(items, kws \ {kw})

\* sum(v for k, v in items.items() if any(kw in k.lower() for kw in kws))
SumMatching(items, kws) ==
    SumKeys(items, {k \in DOMAIN items : \E kw \in kws : Contains(kw, Lower(k))})

\* the guard written d >= 0
GuardedDiv_ZeroAllowed(n, d) == IF d >= 0 THEN RDiv(R(n), R(d)) ELSE R(0)

\* n / d if d > 0 else 0
GuardedDiv(n, d) == IF d > 0 THEN RDiv(R(n), R(d)) ELSE R(0)

\* the quotient left as a fraction of 1
GuardedPct_Fraction(n, d) == IF d > 0 THEN RDiv(R(n), R(d)) ELSE R(0)

\* (n / d * 100) if d > 0 else 0
GuardedPct(n, d) == IF d > 0 THEN RMul(RDiv(R(n), R(d)), R(100)) ELSE R(0)

\* a year of 360 days
DaysOutstanding_Year360(turnover) ==
    IF RGt(turnover, R(0)) THEN RDiv(R(360), turnover) ELSE R(0)

\* 365 / turnover if turnover > 0 else 0
DaysOutstanding(turnover) ==
    IF RGt(turnover, R(0)) THEN RDiv(R(365), turnover) ELSE R(0)

calculate_liquidity_ratios(balance_sheet) ==
    LET cash_items == Items(balance_sheet, "assets", "current_assets")
        current_assets == SumValues(cash_items)
        current_liabilities ==
            SumValues(Items(balance_sheet, "liabilities", "current_liabilities"))
        cash == SumMatching(cash_items, {kw_cash, kw_bank})
        inventory == SumMatching(cash_items, {kw_inventory})
        quick_assets == current_assets - inventory
    IN  [current_ratio |-> GuardedDiv(current_assets, current_liabilities),
         quick_ratio |-> GuardedDiv(quick_assets, current_liabilities),
         cash_ratio |-> GuardedDiv(cash, current_liabilities)]

calculate_profitability_ratios(pl_statement, balance_sheet) ==
    LET total_revenue == Get(Get(pl_statement, "revenue", EmptyMap), "total_revenue", 0)
        gross_profit == Get(Get(pl_statement, "profit", EmptyMap), "gross_profit", 0)
        operating_profit == Get(Get(pl_statement, "profit", EmptyMap), "operating_profit", 0)
        net_profit == Get(Get(pl_statement, "profit", EmptyMap), "net_profit", 0)
        total_assets == Get(Get(balance_sheet, "assets", EmptyMap), "total_assets", 0)
        total_equity == Get(Get(balance_sheet, "equity", EmptyMap), "total_equity", 0)
    IN  [gross_profit_margin |-> GuardedPct(gross_profit, total_revenue),
         operating_profit_margin |-> GuardedPct(operating_profit, total_revenue),
         net_profit_margin |-> GuardedPct(net_profit, total_revenue),
         return_on_assets |-> GuardedPct(net_profit, total_assets),
         return_on_equity |-> GuardedPct(net_profit, total_equity)]

\* total_assets read with the default 1
calculate_leverage_ratios_DefaultOne(balance_sheet) ==
    LET total_assets == Get(Get(balance_sheet, "assets", EmptyMap), "total_assets", 1)
        total_liabilities ==
            Get(Get(balance_sheet, "liabilities", EmptyMap), "total_liabilities", 0)
        total_equity == Get(Get(balance_sheet, "equity", EmptyMap), "total_equity", 0)
    IN  [debt_to_equity |-> GuardedDiv(total_liabilities, total_equity),
         debt_to_assets |-> GuardedPct(total_liabilities, total_assets),
         equity_ratio |-> GuardedPct(total_equity, total_assets)]

\* debt_to_equity guarded against a zero equity only
calculate_leverage_ratios_NonZero(balance_sheet) ==
    LET total_assets == Get(Get(balance_sheet, "assets", EmptyMap), "total_assets", 0)
        total_liabilities ==
            Get(Get(balance_sheet, "liabilities", EmptyMap), "total_liabilities", 0)
        total_equity == Get(Get(balance_sheet, "equity", EmptyMap), "total_equity", 0)
    IN  [debt_to_equity |->
            IF total_equity # 0 THEN RDiv(R(total_liabilities), R(total_equity)) ELSE R(0),
         debt_to_assets |-> GuardedPct(total_liabilities, total_assets),
         equity_ratio |-> GuardedPct(total_equity, total_assets)]

calculate_leverage_ratios(balance_sheet) ==
    LET total_assets == Get(Get(balance_sheet, "assets", EmptyMap), "total_assets", 0)
        total_liabilities ==
            Get(Get(balance_sheet, "liabilities", EmptyMap), "total_liabilities", 0)
        total_equity == Get(Get(balance_sheet, "equity", EmptyMap), "total_equity", 0)
    IN  [debt_to_equity |-> GuardedDiv(total_liabilities, total_equity),
         debt_to_assets |-> GuardedPct(total_liabilities, total_assets),
         equity_ratio |-> GuardedPct(total_equity, total_assets)]

calculate_efficiency_ratios(pl_statement, balance_sheet) ==
    LET total_revenue == Get(Get(pl_statement, "revenue", EmptyMap), "total_revenue", 0)
        total_assets == Get(Get(balance_sheet, "assets", EmptyMap), "total_assets", 0)
        current_assets == Items(balance_sheet, "assets", "current_assets")
        receivables == SumMatching(current_assets, {kw_receivable})
        inventory == SumMatching(current_assets, {kw_inventory})
        cogs == Get(Get(pl_statement, "expenses", EmptyMap), "cost_of_goods_sold", 0)
        receivables_turnover == GuardedDiv(total_revenue, receivables)
        inventory_turnover == GuardedDiv(cogs, inventory)
    IN  [asset_turnover |-> GuardedDiv(total_revenue, total_assets),
         receivables_turnover |-> receivables_turnover,
         days_sales_outstanding |-> DaysOutstanding(receivables_turnover),
         inventory_turnover |-> inventory_turnover,
         days_inventory_outstanding |-> DaysOutstanding(inventory_turnover)]

calculate_all_ratios(financial_data) ==
    LET balance_sheet == Get(financial_data, "balance_sheet", EmptyMap)
        pl_statement == Get(financial_data, "profit_loss", EmptyMap)
    IN  [liquidity |-> calculate_liquidity_ratios(balance_sheet),
         profitability |-> calculate_profitability_ratios(pl_statement, balance_sheet),
         leverage |-> calculate_leverage_ratios(balance_sheet),
         efficiency |-> calculate_efficiency_ratios(pl_statement, balance_sheet)]

\* a division by zero inside a ratio mapping is an exception of the whole call
RatiosRaise(ratios) ==
    \E g \in DOMAIN ratios : \E k \in DOMAIN ratios[g] : ~IsNum(ratios[g][k])

-----------------------------------------------------------------------------
(* FinancialAnalyzer: health score *)

Half == <<1, 2>>
ThreeHalves == <<3, 2>>
ThreeQuarters == <<3, 4>>

\* the top tier worth 30
HealthLiquidityScore_TopThirty(current_ratio) ==
    IF RGe(current_ratio, R(2)) THEN 30
    ELSE IF RGe(current_ratio, ThreeHalves) THEN 20
    ELSE IF RGe(current_ratio, R(1)) THEN 15
    ELSE 5

HealthLiquidityScore(current_ratio) ==
    IF RGe(current_ratio, R(2)) THEN 25
    ELSE IF RGe(current_ratio, ThreeHalves) THEN 20
    ELSE IF RGe(current_ratio, R(1)) THEN 15
    ELSE 5

HealthProfitabilityScore(net_margin) ==
    IF RGe(net_margin, R(20)) THEN 30
    ELSE IF RGe(net_margin, R(10)) THEN 20
    ELSE IF RGe(net_margin, R(5)) THEN 15
    ELSE IF RGt(net_margin, R(0)) THEN 10
    ELSE 0

\* the leverage tiers compared with < instead of <=
HealthLeverageScore_Exclusive(debt_to_equity) ==
    IF RLt(debt_to_equity, Half) THEN 20
    ELSE IF RLt(debt_to_equity, R(1)) THEN 15
    ELSE IF RLt(debt_to_equity, R(2)) THEN 10
    ELSE 5

HealthLeverageScore(debt_to_equity) ==
    IF RLe(debt_to_equity, Half) THEN 20
    ELSE IF RLe(debt_to_equity, R(1)) THEN 15
    ELSE IF RLe(debt_to_equity, R(2)) THEN 10
    ELSE 5

HealthEfficiencyScore(asset_turnover) ==
    IF RGe(asset_turnover, R(2)) THEN 15
    ELSE IF RGe(asset_turnover, R(1)) THEN 10
    ELSE 5

\* total_net_cash_flow is a money amount (an integer)
HealthCashFlowScore(net_cash_flow) ==
    IF net_cash_flow > 0 THEN 10 ELSE 0

\* the bands compared with > instead of >=
HealthGrade_Exclusive(total_score) ==
    IF total_score > 90 THEN "A+"
    ELSE IF total_score > 80 THEN "A"
    ELSE IF total_score > 70 THEN "B+"
    ELSE IF total_score > 60 THEN "B"
    ELSE IF total_score > 50 THEN "C+"
    ELSE IF total_score > 40 THEN "C"
    ELSE "D"

HealthGrade(total_score) ==
    IF total_score >= 90 THEN "A+"
    ELSE IF total_score >= 80 THEN "A"
    ELSE IF total_score >= 70 THEN "B+"
    ELSE IF total_score >= 60 THEN "B"
    ELSE IF total_score >= 50 THEN "C+"
    ELSE IF total_score >= 40 THEN "C"
    ELSE "D"

\* the ratios read with the default 1
calculate_financial_health_score_DefaultOne(ratios, cash_flow) ==
    LET current_ratio == Get(Get(ratios, "liquidity", EmptyMap), "current_ratio", R(1))
        net_margin == Get(Get(ratios, "profitability", EmptyMap), "net_profit_margin", R(1))
        debt_to_equity == Get(Get(ratios, "leverage", EmptyMap), "debt_to_equity", R(1))
        asset_turnover == Get(Get(ratios, "efficiency", EmptyMap), "asset_turnover", R(1))
        net_cash_flow == Get(cash_flow, "total_net_cash_flow", 1)
        score_breakdown ==
            [liquidity |-> HealthLiquidityScore(current_ratio),
             profitability |-> HealthProfitabilityScore(net_margin),
             leverage |-> HealthLeverageScore(debt_to_equity),
             efficiency |-> HealthEfficiencyScore(asset_turnover),
             cash_flow |-> HealthCashFlowScore(net_cash_flow)]
        total_score == SumValues(score_breakdown)
    IN  [total_score |-> total_score,
         grade |-> HealthGrade(total_score),
         breakdown |-> score_breakdown,
         max_score |-> 100]

calculate_financial_health_score(ratios, cash_flow) ==
    LET current_ratio == Get(Get(ratios, "liquidity", EmptyMap), "current_ratio", R(0))
        net_margin == Get(Get(ratios, "profitability", EmptyMap), "net_profit_margin", R(0))
        debt_to_equity == Get(Get(ratios, "leverage", EmptyMap), "debt_to_equity", R(0))
        asset_turnover == Get(Get(ratios, "efficiency", EmptyMap), "asset_turnover", R(0))
        net_cash_flow == Get(cash_flow, "total_net_cash_flow", 0)
        score_breakdown ==
            [liquidity |-> HealthLiquidityScore(current_ratio),
             profitability |-> HealthProfitabilityScore(net_margin),
             leverage |-> HealthLeverageScore(debt_to_equity),
             efficiency |-> HealthEfficiencyScore(asset_turnover),
             cash_flow |-> HealthCashFlowScore(net_cash_flow)]
        total_score == SumValues(score_breakdown)
    IN  [total_score |-> total_score,
         grade |-> HealthGrade(total_score),
         breakdown |-> score_breakdown,
         max_score |-> 100]

-----------------------------------------------------------------------------
(* CreditScoringEngine *)

CREDIT_SCORE_MIN == 300
CREDIT_SCORE_MAX == 900
MIN_SCORE == CREDIT_SCORE_MIN
MAX_SCORE == CREDIT_SCORE_MAX

Min(a, b) == IF a <= b THEN a ELSE b
Max(a, b) == IF a >= b THEN a ELSE b

None == <<>>
Some(v) == <<v>>

\* the rows of one company in the Transaction table, as label -> count
RowsOf(txns, company_id) == {t \in DOMAIN txns : t.company_id = company_id /\ txns[t] > 0}

\* the sample taken without the company filter
SampleSize_AllCompanies(txns, company_id) == Min(SumValues(txns), 100)

\* len(db.query(Transaction).filter(company_id == ...).limit(100).all())
SampleSize(txns, company_id) == Min(SumKeys(txns, RowsOf(txns, company_id)), 100)

\* a company without transactions earns nothing for its payment history
calculate_payment_history_score_ZeroWhenEmpty(txns, company_id) ==
    LET n == SampleSize(txns, company_id)
    IN  IF n = 0 THEN [score |-> 0, details |-> [reason |-> "Limited payment history"]]
        ELSE IF n < 10
             THEN [score |-> 250 - 50,
                   details |-> [limited_history |-> "Few transactions recorded"]]
             ELSE [score |-> 250, details |-> EmptyMap]

calculate_payment_history_score(txns, company_id) ==
    LET n == SampleSize(txns, company_id)
    IN  IF n = 0 THEN [score |-> 150, details |-> [reason |-> "Limited payment history"]]
        ELSE IF n < 10
             THEN [score |-> 250 - 50,
                   details |-> [limited_history |-> "Few transactions recorded"]]
             ELSE [score |-> 250, details |-> EmptyMap]

\* the tiers compared with <= instead of <
calculate_credit_utilization_score_Inclusive(financial_data) ==
    LET leverage_ratios == Get(Get(financial_data, "ratios", EmptyMap), "leverage", EmptyMap)
        debt_to_equity == Get(leverage_ratios, "debt_to_equity", R(0))
        tier == IF REq(debt_to_equity, R(0)) THEN <<200, "No debt - excellent">>
                ELSE IF RLe(debt_to_equity, Half) THEN <<180, "Very low debt - excellent">>
                ELSE IF RLe(debt_to_equity, R(1)) THEN <<160, "Moderate debt - good">>
                ELSE IF RLe(debt_to_equity, R(2)) THEN <<120, "High debt - concerning">>
                ELSE <<80, "Very high debt - risky">>
    IN  [score |-> tier[1],
         details |-> [status |-> tier[2], debt_to_equity_ratio |-> debt_to_equity]]

calculate_credit_utilization_score(financial_data) ==
    LET leverage_ratios == Get(Get(financial_data, "ratios", EmptyMap), "leverage", EmptyMap)
        debt_to_equity == Get(leverage_ratios, "debt_to_equity", R(0))
        tier == IF REq(debt_to_equity, R(0)) THEN <<200, "No debt - excellent">>
                ELSE IF RLt(debt_to_equity, Half) THEN <<180, "Very low debt - excellent">>
                ELSE IF RLt(debt_to_equity, R(1)) THEN <<160, "Moderate debt - good">>
                ELSE IF RLt(debt_to_equity, R(2)) THEN <<120, "High debt - concerning">>
                ELSE <<80, "Very high debt - risky">>
    IN  [score |-> tier[1],
         details |-> [status |-> tier[2], debt_to_equity_ratio |-> debt_to_equity]]

\* the scores of the tiers in ascending order: the best ratio earns the least
CurrentRatioTier_Ascending(current_ratio) ==
    IF RGe(current_ratio, R(2)) THEN <<30, "Excellent">>
    ELSE IF RGe(current_ratio, ThreeHalves) THEN <<60, "Good">>
    ELSE IF RGe(current_ratio, R(1)) THEN <<80, "Adequate">>
    ELSE <<100, "Weak">>

CurrentRatioTier(current_ratio) ==
    IF RGe(current_ratio, R(2)) THEN <<100, "Excellent">>
    ELSE IF RGe(current_ratio, ThreeHalves) THEN <<80, "Good">>
    ELSE IF RGe(current_ratio, R(1)) THEN <<60, "Adequate">>
    ELSE <<30, "Weak">>

\* the quick ratio scored on the thresholds of the current ratio
QuickRatioTier_AsCurrent(quick_ratio) == CurrentRatioTier(quick_ratio)

QuickRatioTier(quick_ratio) ==
    IF RGe(quick_ratio, ThreeHalves) THEN <<100, "Excellent">>
    ELSE IF RGe(quick_ratio, R(1)) THEN <<80, "Good">>
    ELSE IF RGe(quick_ratio, ThreeQuarters) THEN <<60, "Adequate">>
    ELSE <<30, "Weak">>

calculate_liquidity_score(financial_data) ==
    LET liquidity_ratios == Get(Get(financial_data, "ratios", EmptyMap), "liquidity", EmptyMap)
        current_ratio == Get(liquidity_ratios, "current_ratio", R(0))
        quick_ratio == Get(liquidity_ratios, "quick_ratio", R(0))
        c == CurrentRatioTier(current_ratio)
        q == QuickRatioTier(quick_ratio)
    IN  [score |-> Min(0 + c[1] + q[1], 200),
         details |-> [current_ratio_status |-> c[2], quick_ratio_status |-> q[2],
                      current_ratio |-> current_ratio, quick_ratio |-> quick_ratio]]

\* the tiers compared with > instead of >=
calculate_profitability_score_Exclusive(financial_data) ==
    LET profitability_ratios ==
            Get(Get(financial_data, "ratios", EmptyMap), "profitability", EmptyMap)
        net_margin == Get(profitability_ratios, "net_profit_margin", R(0))
        tier == IF RGt(net_margin, R(20)) THEN <<150, "Excellent profitability">>
                ELSE IF RGt(net_margin, R(15)) THEN <<130, "Very good profitability">>
                ELSE IF RGt(net_margin, R(10)) THEN <<110, "Good profitability">>
                ELSE IF RGt(net_margin, R(5)) THEN <<80, "Moderate profitability">>
                ELSE IF RGt(net_margin, R(0)) THEN <<50, "Low profitability">>
                ELSE <<0, "Unprofitable">>
    IN  [score |-> tier[1], details |-> [status |-> tier[2], net_profit_margin |-> net_margin]]

calculate_profitability_score(financial_data) ==
    LET profitability_ratios ==
            Get(Get(financial_data, "ratios", EmptyMap), "profitability", EmptyMap)
        net_margin == Get(profitability_ratios, "net_profit_margin", R(0))
        tier == IF RGe(net_margin, R(20)) THEN <<150, "Excellent profitability">>
                ELSE IF RGe(net_margin, R(15)) THEN <<130, "Very good profitability">>
                ELSE IF RGe(net_margin, R(10)) THEN <<110, "Good profitability">>
                ELSE IF RGe(net_margin, R(5)) THEN <<80, "Moderate profitability">>
                ELSE IF RGt(net_margin, R(0)) THEN <<50, "Low profitability">>
                ELSE <<0, "Unprofitable">>
    IN  [score |-> tier[1], details |-> [status |-> tier[2], net_profit_margin |-> net_margin]]

\* years = (datetime.utcnow() - company.founded_date).days / 365
YearsTier(founded_date, today) ==
    LET years == RDiv(R(today - founded_date), R(365))
    IN  IF RGe(years, R(10)) THEN <<50, "Well-established">>
        ELSE IF RGe(years, R(5)) THEN <<40, "Established">>
        ELSE IF RGe(years, R(3)) THEN <<30, "Growing">>
        ELSE IF RGe(years, R(1)) THEN <<20, "Young company">>
        ELSE <<10, "Startup">>

\* the revenue tiers compared with > instead of >=
RevenueTier_Exclusive(annual_revenue) ==
    IF annual_revenue > 10000000 THEN <<50, "Large SME">>
    ELSE IF annual_revenue > 5000000 THEN <<40, "Medium SME">>
    ELSE IF annual_revenue > 1000000 THEN <<30, "Small SME">>
    ELSE <<20, "Micro SME">>

RevenueTier(annual_revenue) ==
    IF annual_revenue >= 10000000 THEN <<50, "Large SME">>
    ELSE IF annual_revenue >= 5000000 THEN <<40, "Medium SME">>
    ELSE IF annual_revenue >= 1000000 THEN <<30, "Small SME">>
    ELSE <<20, "Micro SME">>

\* a nullable numeric column is falsy when it is None or 0
Truthy(col) == col # None /\ col[1] # 0

\* round(years, 1): days / 365 is never halfway between two tenths
RoundedYears(founded_date, today) ==
    Norm((20 * (today - founded_date) + 365) \div 730, 10)

calculate_business_stability_score(company, today) ==
    LET y == IF company.founded_date # None
             THEN YearsTier(company.founded_date[1], today)
             ELSE <<20, "Unknown">>
        r == IF Truthy(company.annual_revenue)
             THEN RevenueTier(company.annual_revenue[1])
             ELSE <<20, "">>
        years_details ==
            IF company.founded_date # None
            THEN [years_status |-> y[2],
                  years_in_business |-> RoundedYears(company.founded_date[1], today)]
            ELSE [years_status |-> y[2]]
        size_details ==
            IF Truthy(company.annual_revenue) THEN [size_status |-> r[2]] ELSE EmptyMap
    IN  [score |-> Min(0 + y[1] + r[1], 100), details |-> years_details @@ size_details]

\* the bands compared with > instead of >=
get_grade_and_risk_Exclusive(score) ==
    IF score > 800 THEN <<"A+", "Low">>
    ELSE IF score > 750 THEN <<"A", "Low">>
    ELSE IF score > 700 THEN <<"B+", "Low">>
    ELSE IF score > 650 THEN <<"B", "Medium">>
    ELSE IF score > 600 THEN <<"C+", "Medium">>
    ELSE IF score > 550 THEN <<"C", "Medium">>
    ELSE IF score > 500 THEN <<"D+", "High">>
    ELSE <<"D", "High">>

get_grade_and_risk(score) ==
    IF score >= 800 THEN <<"A+", "Low">>
    ELSE IF score >= 750 THEN <<"A", "Low">>
    ELSE IF score >= 700 THEN <<"B+", "Low">>
    ELSE IF score >= 650 THEN <<"B", "Medium">>
    ELSE IF score >= 600 THEN <<"C+", "Medium">>
    ELSE IF score >= 550 THEN <<"C", "Medium">>
    ELSE IF score >= 500 THEN <<"D+", "High">>
    ELSE <<"D", "High">>

suggestions_map ==
    [payment_history |-> "Maintain consistent payment schedules to vendors and creditors",
     credit_utilization |-> "Reduce debt levels or increase equity to improve leverage ratios",
     liquidity |-> "Build cash reserves and improve working capital management",
     profitability |->
        "Focus on increasing profit margins through cost optimization or revenue growth",
     stability |-> "Continue building business track record and growing revenue"]

\* f"Improve {weakness}", kept as a pair: TLA+ strings do not concatenate
ImproveFallback(weakness) == <<"Improve ", weakness>>

\* only the weaknesses that have a canned sentence get a suggestion
generate_improvement_suggestions_MappedOnly(weaknesses) ==
    LET mapped == SelectSeq(weaknesses, LAMBDA w : w \in DOMAIN suggestions_map)
    IN  [i \in 1..Len(mapped) |-> suggestions_map[mapped[i]]]

generate_improvement_suggestions(weaknesses) ==
    [i \in 1..Len(weaknesses) |->
        Get(suggestions_map, weaknesses[i], ImproveFallback(weaknesses[i]))]

\* the insertion order of component_scores
ComponentOrder ==
    <<"payment_history", "credit_utilization", "liquidity", "profitability", "stability">>

\* the share left as a fraction of 1
PercentOfMax_Fraction(score, max) == RDiv(R(score), R(max))

\* score / max * 100
PercentOfMax(score, max) == RMul(RDiv(R(score), R(max)), R(100))

\* max and min exchanged
ClampScore_Swapped(total_score) == Min(MIN_SCORE, Max(total_score, MAX_SCORE))

ClampScore(total_score) == Max(MIN_SCORE, Min(total_score, MAX_SCORE))

\* no row found is treated as a company without attributes
FirstCompany_Blank(comps, company_id) ==
    IF company_id \in DOMAIN comps THEN Some(comps[company_id])
    ELSE Some([user_id |-> 0, founded_date |-> None, annual_revenue |-> None])

\* db.query(Company).filter(Company.id == company_id).first()
FirstCompany(comps, company_id) ==
    IF company_id \in DOMAIN comps THEN Some(comps[company_id]) ELSE None

calculate_credit_score(comps, txns, today, company_id, financial_data) ==
    IF FirstCompany(comps, company_id) = None
    THEN [kind |-> "raise", error |-> "ValueError: Company not found"]
    ELSE
    LET company == FirstCompany(comps, company_id)[1]
        payment == calculate_payment_history_score(txns, company_id)
        utilization == calculate_credit_utilization_score(financial_data)
        liquidity == calculate_liquidity_score(financial_data)
        profitability == calculate_profitability_score(financial_data)
        stability == calculate_business_stability_score(company, today)
        total_score == ClampScore(payment.score + utilization.score + liquidity.score
                                  + profitability.score + stability.score)
        gr == get_grade_and_risk(total_score)
        component_scores ==
            [payment_history |-> PercentOfMax(payment.score, 250),
             credit_utilization |-> PercentOfMax(utilization.score, 200),
             liquidity |-> PercentOfMax(liquidity.score, 200),
             profitability |-> PercentOfMax(profitability.score, 150),
             stability |-> PercentOfMax(stability.score, 100)]
        strengths == SelectSeq(ComponentOrder, LAMBDA k : RGe(component_scores[k], R(80)))
        weaknesses == SelectSeq(ComponentOrder, LAMBDA k : RLt(component_scores[k], R(60)))
    IN  [kind |-> "return",
         value |->
            [score |-> total_score,
             grade |-> gr[1],
             risk_category |-> gr[2],
             breakdown |->
                [payment_history |->
                    [score |-> payment.score, max |-> 250, details |-> payment.details],
                 credit_utilization |->
                    [score |-> utilization.score, max |-> 200,
                     details |-> utilization.details],
                 liquidity |->
                    [score |-> liquidity.score, max |-> 200, details |-> liquidity.details],
                 profitability |->
                    [score |-> profitability.score, max |-> 150,
                     details |-> profitability.details],
                 business_stability |->
                    [score |-> stability.score, max |-> 100, details |-> stability.details]],
             strengths |-> strengths,
             weaknesses |-> weaknesses,
             improvement_suggestions |-> generate_improvement_suggestions(weaknesses)]]

-----------------------------------------------------------------------------
(* FinancialAnalyzer: cash flow *)

kw_revenue == <<"r", "e", "v", "e", "n", "u", "e">>
kw_expense == <<"e", "x", "p", "e", "n", "s", "e">>
kw_cost == <<"c", "o", "s", "t">>
kw_salary == <<"s", "a", "l", "a", "r", "y">>
kw_asset == <<"a", "s", "s", "e", "t">>
kw_equipment == <<"e", "q", "u", "i", "p", "m", "e", "n", "t">>
kw_investment == <<"i", "n", "v", "e", "s", "t", "m", "e", "n", "t">>
kw_loan == <<"l", "o", "a", "n">>
kw_equity == <<"e", "q", "u", "i", "t", "y">>
kw_financing == <<"f", "i", "n", "a", "n", "c", "i", "n", "g">>

OperatingOutflowKeywords == {kw_expense, kw_cost, kw_salary}
InvestingKeywords == {kw_asset, kw_equipment, kw_investment}
FinancingKeywords == {kw_loan, kw_equity, kw_financing}

\* txn.category and any(kw in txn.category.lower() for kw in kws)
CategoryHas(category, kws) ==
    category # <<>> /\ \E kw \in kws : Contains(kw, Lower(category))

\* a transaction that matches no keyword is booked as an operating outflow
Bucket_DefaultOperating(category) ==
    IF CategoryHas(category, {kw_revenue}) THEN "operating_inflows"
    ELSE IF CategoryHas(category, OperatingOutflowKeywords) THEN "operating_outflows"
    ELSE IF CategoryHas(category, InvestingKeywords) THEN "investing_outflows"
    ELSE IF CategoryHas(category, FinancingKeywords) THEN "financing_inflows"
    ELSE "operating_outflows"

\* the branch of the if/elif chain a transaction takes
Bucket(category) ==
    IF CategoryHas(category, {kw_revenue}) THEN "operating_inflows"
    ELSE IF CategoryHas(category, OperatingOutflowKeywords) THEN "operating_outflows"
    ELSE IF CategoryHas(category, InvestingKeywords) THEN "investing_outflows"
    ELSE IF CategoryHas(category, FinancingKeywords) THEN "financing_inflows"
    ELSE "none"

\* the amount appended as it is stored
Appended_Signed(t) == t.amount

\* what a transaction appends to its bucket
Appended(t) ==
    IF Bucket(t.category) \in {"operating_outflows", "investing_outflows"}
    THEN Abs(t.amount) ELSE t.amount

\* four independent tests instead of one if/elif chain: a row goes to the bucket of
\* every keyword group its category matches
RECURSIVE BucketSum_EveryGroup(_, _, _)
BucketSum_EveryGroup(txns, rows, bucket) ==
    IF rows = {} THEN 0
    ELSE LET t == CHOOSE x \in rows : TRUE
             kws == CASE bucket = "operating_inflows" -> {kw_revenue}
                      [] bucket = "operating_outflows" -> OperatingOutflowKeywords
                      [] bucket = "investing_outflows" -> InvestingKeywords
                      [] bucket = "financing_inflows" -> FinancingKeywords
             amount == IF bucket \in {"operating_outflows", "investing_outflows"}
                       THEN Abs(t.amount) ELSE t.amount
         IN  (IF CategoryHas(t.category, kws) THEN txns[t] * amount ELSE 0)
             + BucketSum_EveryGroup(txns, rows \ {t}, bucket)

\* sum(bucket) over the rows that went to it (a row stored n times counts n times)
RECURSIVE BucketSum(_, _, _)
BucketSum(txns, rows, bucket) ==
    IF rows = {} THEN 0
    ELSE LET t == CHOOSE x \in rows : TRUE
         IN  (IF Bucket(t.category) = bucket THEN txns[t] * Appended(t) ELSE 0)
             + BucketSum(txns, rows \ {t}, bucket)

\* the window compared with > instead of >=
InWindow_Exclusive(txns, today, company_id, months) ==
    {t \in RowsOf(txns, company_id) : t.transaction_date > today - months * 30}

\* the rows the query of analyze_cash_flow returns
InWindow(txns, today, company_id, months) ==
    {t \in RowsOf(txns, company_id) : t.transaction_date >= today - months * 30}

NoTransactionData == [error |-> "No transaction data available"]

\* the burn rate reported for a net of 0 too
analyze_cash_flow_BurnAtZero(txns, today, company_id, months) ==
    LET rows == InWindow(txns, today, company_id, months)
        operating_inflows == BucketSum(txns, rows, "operating_inflows")
        operating_outflows == BucketSum(txns, rows, "operating_outflows")
        investing_outflows == BucketSum(txns, rows, "investing_outflows")
        financing_inflows == BucketSum(txns, rows, "financing_inflows")
        operating_net == operating_inflows - operating_outflows
        analysis ==
            [operating_cash_flow |->
                [inflows |-> operating_inflows, outflows |-> operating_outflows,
                 net |-> operating_net],
             investing_cash_flow |->
                [outflows |-> investing_outflows, net |-> -investing_outflows],
             financing_cash_flow |->
                [inflows |-> financing_inflows, net |-> financing_inflows],
             total_net_cash_flow |->
                operating_net + (-investing_outflows) + financing_inflows]
    IN  IF rows = {} THEN NoTransactionData
        ELSE IF operating_net <= 0
             THEN analysis @@ [monthly_burn_rate |-> RDiv(R(Abs(operating_net)), R(months))]
             ELSE analysis

analyze_cash_flow(txns, today, company_id, months) ==
    LET rows == InWindow(txns, today, company_id, months)
        operating_inflows == BucketSum(txns, rows, "operating_inflows")
        operating_outflows == BucketSum(txns, rows, "operating_outflows")
        investing_outflows == BucketSum(txns, rows, "investing_outflows")
        financing_inflows == BucketSum(txns, rows, "financing_inflows")
        operating_net == operating_inflows - operating_outflows
        analysis ==
            [operating_cash_flow |->
                [inflows |-> operating_inflows, outflows |-> operating_outflows,
                 net |-> operating_net],
             investing_cash_flow |->
                [outflows |-> investing_outflows, net |-> -investing_outflows],
             financing_cash_flow |->
                [inflows |-> financing_inflows, net |-> financing_inflows],
             total_net_cash_flow |->
                operating_net + (-investing_outflows) + financing_inflows]
    IN  IF rows = {} THEN NoTransactionData
        ELSE IF operating_net < 0
             THEN analysis @@ [monthly_burn_rate |-> RDiv(R(Abs(operating_net)), R(months))]
             ELSE analysis

-----------------------------------------------------------------------------
(* Inputs: statements *)

L_cash == <<"c", "a", "s", "h">>
L_bank == <<"b", "a", "n", "k">>
L_receivable == <<"r", "e", "c", "e", "i", "v", "a", "b", "l", "e">>
L_inventory == <<"i", "n", "v", "e", "n", "t", "o", "r", "y">>
L_payable == <<"p", "a", "y", "a", "b", "l", "e">>
L_equipment == <<"e", "q", "u", "i", "p", "m", "e", "n", "t">>
L_loan == <<"l", "o", "a", "n">>
L_capital == <<"c", "a", "p", "i", "t", "a", "l">>
L_CashInHand == <<"C", "a", "s", "h", " ", "i", "n", " ", "H", "a", "n", "d">>
L_BankBalance == <<"B", "a", "n", "k", " ", "B", "a", "l", "a", "n", "c", "e">>
L_AccountsReceivable == <<"A", "c", "c", "o", "u", "n", "t", "s", " ", "R", "e", "c", "e", "i", "v", "a", "b", "l", "e">>
L_INVENTORY == <<"I", "N", "V", "E", "N", "T", "O", "R", "Y">>
L_CashAtBank == <<"C", "a", "s", "h", " ", "a", "t", " ", "B", "a", "n", "k">>
L_sales == <<"s", "a", "l", "e", "s">>
L_salaries == <<"s", "a", "l", "a", "r", "i", "e", "s">>
L_interest == <<"i", "n", "t", "e", "r", "e", "s", "t">>

\* a balance sheet whose totals are the sums of its parts
BalanceSheetOf(cash, receivable, inventory, fixed, current_liab, long_term_liab) ==
    LET total_assets == cash + 50 + receivable + inventory + fixed
        total_liabilities == current_liab + long_term_liab
    IN  [assets |->
            [current_assets |->
                (L_CashInHand :> cash) @@ (L_BankBalance :> 50)
                @@ (L_AccountsReceivable :> receivable) @@ (L_INVENTORY :> inventory),
             fixed_assets |-> (L_equipment :> fixed),
             total_assets |-> total_assets],
         liabilities |->
            [current_liabilities |-> (L_payable :> current_liab),
             long_term_liabilities |-> (L_loan :> long_term_liab),
             total_liabilities |-> total_liabilities],
         equity |->
            [items |-> (L_capital :> (total_assets - total_liabilities)),
             total_equity |-> total_assets - total_liabilities]]

\* a profit-and-loss statement whose totals and profits are derived from its parts
ProfitLossOf(revenue, cogs, opex) ==
    [revenue |-> [items |-> (L_sales :> revenue), total_revenue |-> revenue],
     expenses |->
        [cost_of_goods_sold |-> cogs,
         operating_expenses |-> (L_salaries :> opex),
         other_expenses |-> EmptyMap,
         total_expenses |-> cogs + opex],
     profit |->
        [gross_profit |-> revenue - cogs,
         operating_profit |-> revenue - cogs - opex,
         net_profit |-> revenue - cogs - opex]]

\* the worked example of the specification
BS_Example ==
    [assets |->
        [current_assets |->
            (L_cash :> 100) @@ (L_bank :> 50) @@ (L_receivable :> 30) @@ (L_inventory :> 20),
         fixed_assets |-> (L_equipment :> 300),
         total_assets |-> 500],
     liabilities |->
        [current_liabilities |-> (L_payable :> 100),
         long_term_liabilities |-> (L_loan :> 150),
         total_liabilities |-> 250],
     equity |-> [items |-> (L_capital :> 250), total_equity |-> 250]]

PL_Example == ProfitLossOf(1000, 600, 300)

\* a sheet of credit balances: every sum is negative
BS_Negative ==
    [assets |->
        [current_assets |-> (L_AccountsReceivable :> -10) @@ (L_INVENTORY :> -10),
         fixed_assets |-> EmptyMap,
         total_assets |-> -20],
     liabilities |->
        [current_liabilities |-> (L_payable :> -5),
         long_term_liabilities |-> EmptyMap,
         total_liabilities |-> -5],
     equity |-> [items |-> (L_capital :> -15), total_equity |-> -15]]

\* a sheet with an item whose label contains both 'cash' and 'bank'
BS_CashAtBank ==
    [assets |->
        [current_assets |->
            (L_CashAtBank :> 70) @@ (L_cash :> 10) @@ (L_INVENTORY :> 40)
            @@ (L_receivable :> 30),
         fixed_assets |-> EmptyMap,
         total_assets |-> 150],
     liabilities |->
        [current_liabilities |-> (L_payable :> 60),
         long_term_liabilities |-> EmptyMap,
         total_liabilities |-> 60],
     equity |-> [items |-> (L_capital :> 90), total_equity |-> 90]]

BalanceSheets ==
    {BalanceSheetOf(c, r, i, f, cl, ll) :
        c \in {0, 100}, r \in {0, 30}, i \in {0, 20}, f \in {0, 300},
        cl \in {-5, 0, 100}, ll \in {0, 400}}
    \cup {BS_Example, BS_Negative, BS_CashAtBank}

ProfitLosses ==
    {ProfitLossOf(rev, cogs, opex) : rev \in {-10, 0, 1000}, cogs \in {0, 600},
                                     opex \in {100, 500}}

\* the nested keys a statement may lack
MissingPaths ==
    {<<"balance_sheet">>,
     <<"balance_sheet", "assets">>,
     <<"balance_sheet", "assets", "current_assets">>,
     <<"balance_sheet", "assets", "total_assets">>,
     <<"balance_sheet", "liabilities">>,
     <<"balance_sheet", "liabilities", "current_liabilities">>,
     <<"balance_sheet", "liabilities", "total_liabilities">>,
     <<"balance_sheet", "equity">>,
     <<"balance_sheet", "equity", "total_equity">>,
     <<"profit_loss">>,
     <<"profit_loss", "revenue">>,
     <<"profit_loss", "revenue", "total_revenue">>,
     <<"profit_loss", "expenses">>,
     <<"profit_loss", "expenses", "cost_of_goods_sold">>,
     <<"profit_loss", "profit">>,
     <<"profit_loss", "profit", "gross_profit">>,
     <<"profit_loss", "profit", "operating_profit">>,
     <<"profit_loss", "profit", "net_profit">>}

\* m without the key at path
RECURSIVE Without(_, _)
Without(m, path) ==
    IF path[1] \notin DOMAIN m THEN m
    ELSE IF Len(path) = 1 THEN [k \in DOMAIN m \ {path[1]} |-> m[k]]
    ELSE [m EXCEPT ![path[1]] = Without(m[path[1]], Tail(path))]

MaxMissing == 2

\* fd with at most n of its nested keys removed
RECURSIVE WithMissing(_, _)
WithMissing(fd, n) ==
    IF n = 0 THEN {fd}
    ELSE LET prev == WithMissing(fd, n - 1)
         IN  prev \cup {Without(x, p) : x \in prev, p \in MissingPaths}

FinancialData(bs, pl) == [balance_sheet |-> bs, profit_loss |-> pl]

FinancialDataInputs ==
    {FinancialData(bs, pl) : bs \in BalanceSheets, pl \in ProfitLosses}
    \cup WithMissing(FinancialData(BS_Example, PL_Example), MaxMissing)
    \cup {FinancialData(EmptyMap, EmptyMap), FinancialData(BS_Example, EmptyMap),
          FinancialData(EmptyMap, PL_Example)}

-----------------------------------------------------------------------------
(* Calls of the service functions *)

NoCall == [fn |-> "none", args |-> <<>>]
Idle == [kind |-> "idle"]
Return(v) == [kind |-> "return", value |-> v]
Raise(e) == [kind |-> "raise", error |-> e]

Init ==
    /\ companies = EmptyMap
    /\ statements = {}
    /\ transactions = EmptyMap
    /\ recommendations = {}
    /\ now = 0
    /\ call = NoCall
    /\ ret = Idle

db_vars == <<companies, statements, transactions, recommendations, now>>

\* the caller takes the outcome
Deliver ==
    /\ ret.kind # "idle"
    /\ call' = NoCall
    /\ ret' = Idle
    /\ UNCHANGED db_vars

Call_calculate_all_ratios ==
    /\ ret.kind = "idle"
    /\ \E fd \in FinancialDataInputs :
        /\ call' = [fn |-> "calculate_all_ratios", args |-> <<fd>>]
        /\ ret' = LET ratios == calculate_all_ratios(fd)
                  IN  IF RatiosRaise(ratios) THEN Raise("ZeroDivisionError")
                      ELSE Return(ratios)
    /\ UNCHANGED db_vars

\* the scoring of a company's statements: the ratios of the statements are stored in
\* financial_data for the credit utilization score and passed to the health score
Call_score_statements ==
    /\ ret.kind = "idle"
    /\ \E fd \in FinancialDataInputs :
        \E cash_flow \in {NoTransactionData, [total_net_cash_flow |-> 600]} :
            /\ call' = [fn |-> "score_statements", args |-> <<fd, cash_flow>>]
            /\ ret' = LET ratios == calculate_all_ratios(fd)
                          financial_data == fd @@ [ratios |-> ratios]
                      IN  IF RatiosRaise(ratios) THEN Raise("ZeroDivisionError")
                          ELSE Return(
                            [ratios |-> ratios,
                             utilization |-> calculate_credit_utilization_score(financial_data),
                             health |-> calculate_financial_health_score(ratios, cash_flow)])
    /\ UNCHANGED db_vars

RatioNext == Call_calculate_all_ratios \/ Call_score_statements \/ Deliver

RatioSpec == Init /\ [][RatioNext]_vars

-----------------------------------------------------------------------------
(* Properties of calculate_all_ratios *)

RatiosCalled == call.fn = "calculate_all_ratios"

\* the quantities the ratios divide by, read from the argument of the call
ArgBalanceSheet == Get(call.args[1], "balance_sheet", EmptyMap)
ArgProfitLoss == Get(call.args[1], "profit_loss", EmptyMap)
ArgCurrentAssets == Items(ArgBalanceSheet, "assets", "current_assets")
ArgCurrentLiabilities ==
    SumValues(Items(ArgBalanceSheet, "liabilities", "current_liabilities"))
ArgTotalAssets == Get(Get(ArgBalanceSheet, "assets", EmptyMap), "total_assets", 0)
ArgTotalEquity == Get(Get(ArgBalanceSheet, "equity", EmptyMap), "total_equity", 0)
ArgTotalRevenue == Get(Get(ArgProfitLoss, "revenue", EmptyMap), "total_revenue", 0)
ArgReceivables == SumMatching(ArgCurrentAssets, {kw_receivable})
ArgInventory == SumMatching(ArgCurrentAssets, {kw_inventory})

AllZero(ratios, names) == \A q \in names : ratios[q[1]][q[2]] = R(0)

\* C5: every ratio whose denominator is zero or negative is exactly 0, and the
\* call raises no division error.
C5_ZeroOrNegativeDenominatorGivesZero ==
    RatiosCalled =>
        /\ ret.kind = "return"
        /\ LET r == ret.value
           IN  /\ ArgCurrentLiabilities <= 0 =>
                    AllZero(r, {<<"liquidity", "current_ratio">>,
                                <<"liquidity", "quick_ratio">>,
                                <<"liquidity", "cash_ratio">>})
               /\ ArgTotalRevenue <= 0 =>
                    AllZero(r, {<<"profitability", "gross_profit_margin">>,
                                <<"profitability", "operating_profit_margin">>,
                                <<"profitability", "net_profit_margin">>})
               /\ ArgTotalAssets <= 0 =>
                    AllZero(r, {<<"profitability", "return_on_assets">>,
                                <<"leverage", "debt_to_assets">>,
                                <<"leverage", "equity_ratio">>,
                                <<"efficiency", "asset_turnover">>})
               /\ ArgTotalEquity <= 0 =>
                    AllZero(r, {<<"profitability", "return_on_equity">>,
                                <<"leverage", "debt_to_equity">>})
               /\ ArgReceivables <= 0 =>
                    AllZero(r, {<<"efficiency", "receivables_turnover">>})
               /\ ArgInventory <= 0 =>
                    AllZero(r, {<<"efficiency", "inventory_turnover">>})
               /\ RLe(r.efficiency.receivables_turnover, R(0)) =>
                    AllZero(r, {<<"efficiency", "days_sales_outstanding">>})
               /\ RLe(r.efficiency.inventory_turnover, R(0)) =>
                    AllZero(r, {<<"efficiency", "days_inventory_outstanding">>})

\* a call whose current liabilities are zero, whose equity and revenue are negative
\* and whose receivables turnover is negative while receivables are positive
C5_Witness ==
    /\ RatiosCalled
    /\ ret.kind = "return"
    /\ ArgCurrentLiabilities = 0
    /\ SumValues(ArgCurrentAssets) > 0
    /\ ArgTotalEquity < 0
    /\ ArgTotalRevenue < 0
    /\ ArgReceivables > 0
    /\ RLt(ret.value.efficiency.receivables_turnover, R(0))

\* the key at path cannot be reached in m
RECURSIVE Absent(_, _)
Absent(m, path) ==
    \/ path[1] \notin DOMAIN m
    \/ Len(path) > 1 /\ Absent(m[path[1]], Tail(path))

RatioNames ==
    [liquidity |-> {"current_ratio", "quick_ratio", "cash_ratio"},
     profitability |-> {"gross_profit_margin", "operating_profit_margin",
                        "net_profit_margin", "return_on_assets", "return_on_equity"},
     leverage |-> {"debt_to_equity", "debt_to_assets", "equity_ratio"},
     efficiency |-> {"asset_turnover", "receivables_turnover", "days_sales_outstanding",
                     "inventory_turnover", "days_inventory_outstanding"}]

AllRatioNames == UNION {{<<g, n>> : n \in RatioNames[g]} : g \in DOMAIN RatioNames}

\* the ratios whose formula reads the key at path
ReadBy(path) ==
    CASE path = <<"balance_sheet", "assets", "current_assets">> ->
            {<<"liquidity", "current_ratio">>, <<"liquidity", "quick_ratio">>,
             <<"liquidity", "cash_ratio">>, <<"efficiency", "receivables_turnover">>,
             <<"efficiency", "days_sales_outstanding">>,
             <<"efficiency", "inventory_turnover">>,
             <<"efficiency", "days_inventory_outstanding">>}
      [] path = <<"balance_sheet", "assets", "total_assets">> ->
            {<<"profitability", "return_on_assets">>, <<"leverage", "debt_to_assets">>,
             <<"leverage", "equity_ratio">>, <<"efficiency", "asset_turnover">>}
      [] path = <<"balance_sheet", "liabilities", "current_liabilities">> ->
            {<<"liquidity", "current_ratio">>, <<"liquidity", "quick_ratio">>,
             <<"liquidity", "cash_ratio">>}
      [] path = <<"balance_sheet", "liabilities", "total_liabilities">> ->
            {<<"leverage", "debt_to_equity">>, <<"leverage", "debt_to_assets">>}
      [] path = <<"balance_sheet", "equity", "total_equity">> ->
            {<<"profitability", "return_on_equity">>, <<"leverage", "debt_to_equity">>,
             <<"leverage", "equity_ratio">>}
      [] path = <<"profit_loss", "revenue", "total_revenue">> ->
            {<<"profitability", "gross_profit_margin">>,
             <<"profitability", "operating_profit_margin">>,
             <<"profitability", "net_profit_margin">>,
             <<"efficiency", "asset_turnover">>, <<"efficiency", "receivables_turnover">>,
             <<"efficiency", "days_sales_outstanding">>}
      [] path = <<"profit_loss", "expenses", "cost_of_goods_sold">> ->
            {<<"efficiency", "inventory_turnover">>,
             <<"efficiency", "days_inventory_outstanding">>}
      [] path = <<"profit_loss", "profit", "gross_profit">> ->
            {<<"profitability", "gross_profit_margin">>}
      [] path = <<"profit_loss", "profit", "operating_profit">> ->
            {<<"profitability", "operating_profit_margin">>}
      [] path = <<"profit_loss", "profit", "net_profit">> ->
            {<<"profitability", "net_profit_margin">>,
             <<"profitability", "return_on_assets">>,
             <<"profitability", "return_on_equity">>}
      [] OTHER -> {}

\* C6: calculate_all_ratios does not raise on missing data; it returns the four
\* groups with all sixteen ratio names, every ratio that reads an absent key is 0,
\* and all sixteen are 0 when both statements are empty.
C6_TotalOverMissingData ==
    RatiosCalled =>
        /\ ret.kind = "return"
        /\ DOMAIN ret.value = DOMAIN RatioNames
        /\ \A g \in DOMAIN RatioNames : DOMAIN ret.value[g] = RatioNames[g]
        /\ \A path \in MissingPaths :
                Absent(call.args[1], path) => AllZero(ret.value, ReadBy(path))
        /\ (ArgBalanceSheet = EmptyMap /\ ArgProfitLoss = EmptyMap) =>
                AllZero(ret.value, AllRatioNames)

\* a call without the balance sheet's total_assets but with revenue, and one with
\* both statements empty, are both served
C6_Witness ==
    /\ RatiosCalled
    /\ ret.kind = "return"
    /\ Absent(call.args[1], <<"balance_sheet", "assets", "total_assets">>)
    /\ ~Absent(call.args[1], <<"balance_sheet", "liabilities", "total_liabilities">>)
    /\ ArgTotalRevenue > 0
    /\ ret.value.efficiency.receivables_turnover # R(0)

-----------------------------------------------------------------------------
(* Inputs: ratio mappings *)

\* h hundredths
H(h) == Norm(h, 100)

\* what a ratios mapping may hold for one ratio: no group, a group without the
\* ratio, or a value
Entries(points) ==
    {<<"missing_group">>, <<"missing_ratio">>} \cup {<<"value", H(h)>> : h \in points}

Group(g, k, e) ==
    CASE e[1] = "missing_group" -> EmptyMap
      [] e[1] = "missing_ratio" -> g :> EmptyMap
      [] OTHER -> g :> (k :> e[2])

HealthRatiosInputs ==
    {Group("liquidity", "current_ratio", cr)
        @@ Group("profitability", "net_profit_margin", npm)
        @@ Group("leverage", "debt_to_equity", dte)
        @@ Group("efficiency", "asset_turnover", at) :
        cr \in Entries({0, 99, 100, 150, 200}),
        npm \in Entries({-100, 0, 1, 500, 1000, 2000}),
        dte \in Entries({0, 50, 51, 100, 200, 201}),
        at \in Entries({0, 99, 100, 200})}

CashFlowInputs ==
    {EmptyMap, NoTransactionData} \cup {[total_net_cash_flow |-> v] : v \in {-1, 0, 1}}

Call_calculate_financial_health_score ==
    /\ ret.kind = "idle"
    /\ \E ratios \in HealthRatiosInputs, cash_flow \in CashFlowInputs :
        /\ call' = [fn |-> "calculate_financial_health_score",
                    args |-> <<ratios, cash_flow>>]
        /\ ret' = Return(calculate_financial_health_score(ratios, cash_flow))
    /\ UNCHANGED db_vars

HealthNext == Call_calculate_financial_health_score \/ Deliver

HealthSpec == Init /\ [][HealthNext]_vars

-----------------------------------------------------------------------------
(* Properties of calculate_financial_health_score *)

HealthCalled == call.fn = "calculate_financial_health_score"

HealthComponentRange ==
    [liquidity |-> 0..25, profitability |-> 0..30, leverage |-> 0..20,
     efficiency |-> 0..15, cash_flow |-> 0..10]

\* C3: total_score is an integer in [0, 100], the sum of the five breakdown
\* entries, each within its range, and max_score is 100.
C3_HealthTotalIsBoundedSum ==
    HealthCalled =>
        /\ ret.kind = "return"
        /\ ret.value.total_score \in 0..100
        /\ DOMAIN ret.value.breakdown = DOMAIN HealthComponentRange
        /\ \A c \in DOMAIN HealthComponentRange :
                ret.value.breakdown[c] \in HealthComponentRange[c]
        /\ ret.value.total_score =
                ret.value.breakdown.liquidity + ret.value.breakdown.profitability
                + ret.value.breakdown.leverage + ret.value.breakdown.efficiency
                + ret.value.breakdown.cash_flow
        /\ ret.value.max_score = 100

\* every component at its maximum: the total is 100
C3_Witness ==
    /\ HealthCalled
    /\ ret.kind = "return"
    /\ ret.value.breakdown =
        [liquidity |-> 25, profitability |-> 30, leverage |-> 20, efficiency |-> 15,
         cash_flow |-> 10]
    /\ ret.value.total_score = 100

\* C4: the grade is decided by total_score with inclusive lower bounds
\* 90 A+, 80 A, 70 B+, 60 B, 50 C+, 40 C, otherwise D.
C4_HealthGradeBands ==
    (HealthCalled /\ ret.kind = "return") =>
        LET t == ret.value.total_score
            g == ret.value.grade
        IN  /\ g = "A+" <=> t >= 90
            /\ g = "A" <=> (t >= 80 /\ t < 90)
            /\ g = "B+" <=> (t >= 70 /\ t < 80)
            /\ g = "B" <=> (t >= 60 /\ t < 70)
            /\ g = "C+" <=> (t >= 50 /\ t < 60)
            /\ g = "C" <=> (t >= 40 /\ t < 50)
            /\ g = "D" <=> t < 40

\* a total exactly on the boundary 90 is graded A+
C4_Witness ==
    /\ HealthCalled
    /\ ret.kind = "return"
    /\ ret.value.total_score = 90
    /\ ret.value.grade = "A+"

\* the argument with every ratio and the net cash flow the function reads present
ZeroFilledRatios(ratios) ==
    [liquidity |->
        [current_ratio |-> Get(Get(ratios, "liquidity", EmptyMap), "current_ratio", R(0))],
     profitability |->
        [net_profit_margin |->
            Get(Get(ratios, "profitability", EmptyMap), "net_profit_margin", R(0))],
     leverage |->
        [debt_to_equity |-> Get(Get(ratios, "leverage", EmptyMap), "debt_to_equity", R(0))],
     efficiency |->
        [asset_turnover |-> Get(Get(ratios, "efficiency", EmptyMap), "asset_turnover", R(0))]]

ZeroFilledCashFlow(cash_flow) ==
    [total_net_cash_flow |-> Get(cash_flow, "total_net_cash_flow", 0)]

\* C9: calculate_financial_health_score returns for every ratios and cash_flow
\* mapping; a missing ratio scores as the ratio 0 does, and a missing
\* total_net_cash_flow scores the cash_flow component 0.
C9_HealthScoreNeverFails ==
    HealthCalled =>
        /\ ret.kind = "return"
        /\ LET ratios == call.args[1]
               cash_flow == call.args[2]
               b == ret.value.breakdown
           IN  /\ Absent(ratios, <<"liquidity", "current_ratio">>) => b.liquidity = 5
               /\ Absent(ratios, <<"profitability", "net_profit_margin">>) =>
                    b.profitability = 0
               /\ Absent(ratios, <<"leverage", "debt_to_equity">>) => b.leverage = 20
               /\ Absent(ratios, <<"efficiency", "asset_turnover">>) => b.efficiency = 5
               /\ Absent(cash_flow, <<"total_net_cash_flow">>) => b.cash_flow = 0
               /\ ret.value =
                    calculate_financial_health_score(ZeroFilledRatios(ratios),
                                                     ZeroFilledCashFlow(cash_flow))

\* a call without the profitability group, with an empty liquidity group and with
\* the no-data result of analyze_cash_flow as its cash flow
C9_Witness ==
    /\ HealthCalled
    /\ ret.kind = "return"
    /\ "profitability" \notin DOMAIN call.args[1]
    /\ "liquidity" \in DOMAIN call.args[1]
    /\ call.args[1].liquidity = EmptyMap
    /\ call.args[2] = NoTransactionData
    /\ ret.value.breakdown.cash_flow = 0

-----------------------------------------------------------------------------
(* Inputs: companies, transaction samples, credit ratios *)

CompanyRow(user, founded, revenue) ==
    [user_id |-> user, founded_date |-> founded, annual_revenue |-> revenue]

\* one stored transaction
TxnRow(company_id, date, category, amount) ==
    [company_id |-> company_id, transaction_date |-> date, category |-> category,
     amount |-> amount]

CreditCompanyTables ==
    {1 :> CompanyRow(1, f, r) :
        f \in {None, Some(0), Some(-3650)},
        r \in {None, Some(5000000), Some(10000000)}}

\* tables holding n equal rows of company 1, and one holding rows of company 2 only
SampleTables ==
    {EmptyMap, TxnRow(2, 0, kw_revenue, 1000) :> 10}
    \cup {TxnRow(1, 0, kw_revenue, 1000) :> n : n \in {9, 10}}

CreditRatiosInputs ==
    {[ratios |->
        [liquidity |-> [current_ratio |-> H(cr), quick_ratio |-> H(qr)],
         profitability |-> [net_profit_margin |-> H(npm)],
         leverage |-> [debt_to_equity |-> H(dte)]]] :
        cr \in {99, 100, 150, 200}, qr \in {74, 75, 100, 150},
        npm \in {0, 1, 500, 1000, 1500, 2000}, dte \in {0, 49, 50, 100, 200}}

SparseFinancialData ==
    {EmptyMap, [ratios |-> EmptyMap],
     [ratios |-> [liquidity |-> EmptyMap, leverage |-> [debt_to_equity |-> H(300)]]]}

\* the calls of calculate_credit_score: (companies, transactions, id, financial_data)
CreditCalls ==
    (CreditCompanyTables \X SampleTables \X {1} \X (CreditRatiosInputs \cup SparseFinancialData))
    \cup (({EmptyMap} \cup CreditCompanyTables) \X SampleTables \X {1, 2} \X SparseFinancialData)

Call_calculate_credit_score ==
    /\ ret.kind = "idle"
    /\ \E c \in CreditCalls :
        /\ call' = [fn |-> "calculate_credit_score", args |-> <<c[1], c[2], now, c[3], c[4]>>]
        /\ ret' = calculate_credit_score(c[1], c[2], now, c[3], c[4])
    /\ UNCHANGED db_vars

Call_get_grade_and_risk ==
    /\ ret.kind = "idle"
    /\ \E score \in CREDIT_SCORE_MIN..CREDIT_SCORE_MAX :
        /\ call' = [fn |-> "get_grade_and_risk", args |-> <<score>>]
        /\ ret' = Return(get_grade_and_risk(score))
    /\ UNCHANGED db_vars

\* tables of n rows of company 1, with and without rows of company 2
PaymentTables ==
    {EmptyMap, TxnRow(2, 0, kw_revenue, 1000) :> 10}
    \cup {TxnRow(1, 0, kw_revenue, 1000) :> n : n \in {1, 9, 10, 100, 101}}
    \cup {(TxnRow(1, 0, kw_revenue, 1000) :> 5) @@ (TxnRow(1, -40, kw_salary, 300) :> n)
            @@ (TxnRow(2, 0, kw_revenue, 1000) :> 10) : n \in {4, 5}}

Call_calculate_payment_history_score ==
    /\ ret.kind = "idle"
    /\ \E txns \in PaymentTables, company_id \in {1, 2} :
        /\ call' = [fn |-> "calculate_payment_history_score", args |-> <<txns, company_id>>]
        /\ ret' = Return(calculate_payment_history_score(txns, company_id))
    /\ UNCHANGED db_vars

\* financial_data with debt_to_equity on both sides of every tier, negative, and missing
UtilizationInputs ==
    {[ratios |-> [leverage |-> [debt_to_equity |-> H(dte)]]] :
        dte \in {-50, 0, 1, 49, 50, 51, 99, 100, 101, 199, 200, 201, 1000}}
    \cup {EmptyMap, [ratios |-> EmptyMap], [ratios |-> [leverage |-> EmptyMap]],
          [ratios |-> [leverage |-> [debt_to_assets |-> H(5000)]]]}

Call_calculate_credit_utilization_score ==
    /\ ret.kind = "idle"
    /\ \E financial_data \in UtilizationInputs :
        /\ call' = [fn |-> "calculate_credit_utilization_score", args |-> <<financial_data>>]
        /\ ret' = Return(calculate_credit_utilization_score(financial_data))
    /\ UNCHANGED db_vars

\* financial_data with both liquidity ratios around every tier, and with ratios missing
LiquidityInputs ==
    {[ratios |-> [liquidity |-> [current_ratio |-> H(cr), quick_ratio |-> H(qr)]]] :
        cr \in {-100, 0, 99, 100, 149, 150, 199, 200, 500},
        qr \in {-100, 0, 74, 75, 99, 100, 149, 150, 500}}
    \cup {EmptyMap, [ratios |-> EmptyMap], [ratios |-> [liquidity |-> EmptyMap]],
          [ratios |-> [liquidity |-> [current_ratio |-> H(200)]]],
          [ratios |-> [liquidity |-> [quick_ratio |-> H(150)]]]}

Call_calculate_liquidity_score ==
    /\ ret.kind = "idle"
    /\ \E financial_data \in LiquidityInputs :
        /\ call' = [fn |-> "calculate_liquidity_score", args |-> <<financial_data>>]
        /\ ret' = Return(calculate_liquidity_score(financial_data))
    /\ UNCHANGED db_vars

\* financial_data with net_profit_margin around every tier, negative, and missing
ProfitabilityInputs ==
    {[ratios |-> [profitability |-> [net_profit_margin |-> H(npm)]]] :
        npm \in {-1000, -1, 0, 1, 499, 500, 501, 999, 1000, 1499, 1500, 1999, 2000, 9000}}
    \cup {EmptyMap, [ratios |-> EmptyMap], [ratios |-> [profitability |-> EmptyMap]],
          [ratios |-> [profitability |-> [gross_profit_margin |-> H(4000)]]]}

Call_calculate_profitability_score ==
    /\ ret.kind = "idle"
    /\ \E financial_data \in ProfitabilityInputs :
        /\ call' = [fn |-> "calculate_profitability_score", args |-> <<financial_data>>]
        /\ ret' = Return(calculate_profitability_score(financial_data))
    /\ UNCHANGED db_vars

\* companies founded around every tier of years before day 0, or on an unknown date, with
\* revenues around every tier, 0 or unknown
StabilityCompanies ==
    {CompanyRow(1, f, r) :
        f \in {None} \cup {Some(-d) : d \in {-1, 0, 364, 365, 1094, 1095, 1824, 1825, 3649,
                                             3650, 7300}},
        r \in {None} \cup {Some(v) : v \in {-5, 0, 1, 999999, 1000000, 4999999, 5000000,
                                             9999999, 10000000, 20000000}}}

Call_calculate_business_stability_score ==
    /\ ret.kind = "idle"
    /\ \E company \in StabilityCompanies :
        /\ call' = [fn |-> "calculate_business_stability_score", args |-> <<company, now>>]
        /\ ret' = Return(calculate_business_stability_score(company, now))
    /\ UNCHANGED db_vars

MaxWeaknesses == 3

\* the names calculate_credit_score can list, and two names without a canned sentence
WeaknessNames ==
    {"payment_history", "credit_utilization", "liquidity", "profitability", "stability",
     "business_stability", "cash_flow"}

SeqsUpTo(S, n) == UNION {[1..k -> S] : k \in 0..n}

Call_generate_improvement_suggestions ==
    /\ ret.kind = "idle"
    /\ \E weaknesses \in SeqsUpTo(WeaknessNames, MaxWeaknesses) :
        /\ call' = [fn |-> "generate_improvement_suggestions", args |-> <<weaknesses>>]
        /\ ret' = Return(generate_improvement_suggestions(weaknesses))
    /\ UNCHANGED db_vars

CreditNext ==
    \/ Call_calculate_credit_score
    \/ Call_get_grade_and_risk
    \/ Call_calculate_payment_history_score
    \/ Call_calculate_credit_utilization_score
    \/ Call_calculate_liquidity_score
    \/ Call_calculate_profitability_score
    \/ Call_calculate_business_stability_score
    \/ Call_generate_improvement_suggestions
    \/ Deliver

CreditSpec == Init /\ [][CreditNext]_vars

-----------------------------------------------------------------------------
(* Properties of CreditScoringEngine *)

CreditCalled == call.fn = "calculate_credit_score"
GradeCalled == call.fn = "get_grade_and_risk"

BreakdownSum(b) ==
    b.payment_history.score + b.credit_utilization.score + b.liquidity.score
    + b.profitability.score + b.business_stability.score

\* C1: the score of calculate_credit_score is an integer in [300, 900], the sum
\* of the five sub-scores clamped with max(300, min(sum, 900)).
C1_CreditScoreClamped ==
    (CreditCalled /\ ret.kind = "return") =>
        /\ ret.value.score \in 300..900
        /\ LET sum == BreakdownSum(ret.value.breakdown)
           IN  ret.value.score = (IF sum < 300 THEN 300 ELSE IF sum > 900 THEN 900 ELSE sum)

\* every sub-score at its maximum: the sum is 900
C1_Witness ==
    /\ CreditCalled
    /\ ret.kind = "return"
    /\ BreakdownSum(ret.value.breakdown) = 900
    /\ ret.value.score = 900

\* the inclusive-lower-bound table of the specification
GradeTable ==
    <<<<800, "A+", "Low">>, <<750, "A", "Low">>, <<700, "B+", "Low">>,
      <<650, "B", "Medium">>, <<600, "C+", "Medium">>, <<550, "C", "Medium">>,
      <<500, "D+", "High">>>>

Banded(score) ==
    LET hit == {i \in 1..Len(GradeTable) : score >= GradeTable[i][1]}
    IN  IF hit = {} THEN <<"D", "High">>
        ELSE LET i == CHOOSE x \in hit : \A y \in hit : x <= y
             IN  <<GradeTable[i][2], GradeTable[i][3]>>

\* C2: get_grade_and_risk returns the pair of the inclusive-lower-bound table for
\* every score in [300, 900], and the grade and risk_category of a credit score
\* result are that pair for its clamped score.
C2_GradeAndRiskTable ==
    /\ GradeCalled => (ret.kind = "return" /\ ret.value = Banded(call.args[1]))
    /\ (CreditCalled /\ ret.kind = "return") =>
            <<ret.value.grade, ret.value.risk_category>> = Banded(ret.value.score)

\* the boundary 800 itself is graded A+ with low risk
C2_Witness ==
    /\ GradeCalled
    /\ call.args[1] = 800
    /\ ret.kind = "return"
    /\ ret.value = <<"A+", "Low">>

\* C8: calculate_credit_score raises the company-not-found error exactly when
\* company_id resolves to no company, and then returns no score, grade or
\* breakdown.
C8_CompanyNotFound ==
    CreditCalled =>
        /\ ret.kind = "raise" <=> call.args[4] \notin DOMAIN call.args[1]
        /\ ret.kind = "raise" =>
            (ret.error = "ValueError: Company not found" /\ "value" \notin DOMAIN ret)

\* a call for company 2 while only company 1 exists and has transactions
C8_Witness ==
    /\ CreditCalled
    /\ call.args[4] = 2
    /\ 1 \in DOMAIN call.args[1]
    /\ call.args[2] # EmptyMap
    /\ ret.kind = "raise"

-----------------------------------------------------------------------------
(* Inputs: transactions *)

cat_Revenue == <<"R", "e", "v", "e", "n", "u", "e">>
cat_expense == <<"e", "x", "p", "e", "n", "s", "e">>
cat_Salary == <<"S", "a", "l", "a", "r", "y">>
cat_equipment_loan == <<"e", "q", "u", "i", "p", "m", "e", "n", "t", " ", "l", "o", "a", "n">>
cat_cost_of_revenue == <<"c", "o", "s", "t", " ", "o", "f", " ", "r", "e", "v", "e", "n", "u", "e">>
cat_misc == <<"m", "i", "s", "c">>
cat_loan == <<"l", "o", "a", "n">>

\* category None (or the empty string): falsy in Python
cat_None == <<>>

\* (category, amount) of the transactions drawn
TxnKinds ==
    {<<cat_Revenue, 1000>>, <<cat_expense, -400>>, <<cat_expense, 400>>,
     <<cat_Salary, 2000>>, <<cat_equipment_loan, 500>>, <<cat_cost_of_revenue, 300>>,
     <<cat_misc, 50>>, <<cat_None, 70>>, <<cat_loan, 900>>,
     <<cat_Revenue, -200>>, <<cat_equipment_loan, -500>>}

\* dates on both sides of the 1-month and 12-month windows of day 0
TxnDates == {-361, -360, -30}

TxnRows ==
    {TxnRow(1, d, k[1], k[2]) : d \in TxnDates, k \in TxnKinds}
    \cup {TxnRow(2, -30, cat_Revenue, 1000)}

\* db.add(Transaction(...)) for one row
AddRow(txns, row) ==
    IF row \in DOMAIN txns THEN [txns EXCEPT ![row] = @ + 1] ELSE txns @@ (row :> 1)

MaxTxns == 2

\* the tables of at most n rows
RECURSIVE TablesUpTo(_)
TablesUpTo(n) ==
    IF n = 0 THEN {EmptyMap}
    ELSE LET prev == TablesUpTo(n - 1)
         IN  prev \cup {AddRow(t, r) : t \in prev, r \in TxnRows}

Call_analyze_cash_flow ==
    /\ ret.kind = "idle"
    /\ \E txns \in TablesUpTo(MaxTxns), months \in {1, 12} :
        /\ call' = [fn |-> "analyze_cash_flow", args |-> <<txns, now, 1, months>>]
        /\ ret' = Return(analyze_cash_flow(txns, now, 1, months))
    /\ UNCHANGED db_vars

CashFlowNext == Call_analyze_cash_flow \/ Deliver

CashFlowSpec == Init /\ [][CashFlowNext]_vars

-----------------------------------------------------------------------------
(* Properties of analyze_cash_flow *)

CashFlowCalled == call.fn = "analyze_cash_flow"

\* no stored transaction of the company is dated within the trailing months * 30 days
ArgWindowEmpty ==
    LET txns == call.args[1]
        today == call.args[2]
        company_id == call.args[3]
        months == call.args[4]
    IN  ~ \E t \in DOMAIN txns :
            /\ txns[t] > 0
            /\ t.company_id = company_id
            /\ t.transaction_date >= today - months * 30

CashFlowBuckets == {"operating_cash_flow", "investing_cash_flow", "financing_cash_flow"}

\* C7 as stated: an empty lookback window makes analyze_cash_flow raise an error
\* that reaches its caller.
C7_Original_RaisesNoData ==
    (CashFlowCalled /\ ArgWindowEmpty) => ret.kind = "raise"

\* C7: analyze_cash_flow does not raise on an empty lookback window; it returns
\* to its caller the mapping {error: "No transaction data available"}, which
\* holds no cash-flow bucket, exactly when no transaction of the company is dated
\* within the trailing months * 30 days.
C7_NoDataIsReturned ==
    CashFlowCalled =>
        /\ ret.kind = "return"
        /\ ArgWindowEmpty <=> ret.value = NoTransactionData
        /\ ArgWindowEmpty => DOMAIN ret.value \cap (CashFlowBuckets \cup {"total_net_cash_flow"}) = {}
        /\ ~ArgWindowEmpty => CashFlowBuckets \subseteq DOMAIN ret.value

\* the company has transactions, but none inside the 12-month window
C7_Witness ==
    /\ CashFlowCalled
    /\ call.args[4] = 12
    /\ \E t \in DOMAIN call.args[1] : t.company_id = call.args[3]
    /\ ArgWindowEmpty
    /\ ret = Return(NoTransactionData)

-----------------------------------------------------------------------------
(* The analysis routes *)

\* db.query(Company).filter(Company.id == company_id,
\*                          Company.user_id == current_user.id).first()
OwnedCompany(comps, company_id, current_user) ==
    IF company_id \in DOMAIN comps /\ comps[company_id].user_id = current_user
    THEN Some(comps[company_id]) ELSE None

\* the rows .order_by(period_end.desc()).first() may return: None when there is no
\* statement of the type, else any row with the greatest period_end
LatestStatement(stmts, company_id, statement_type) ==
    LET rows == {r \in stmts : r.company_id = company_id
                               /\ r.statement_type = statement_type}
    IN  IF rows = {} THEN {None}
        ELSE {Some(r) : r \in {x \in rows : \A y \in rows : x.period_end >= y.period_end}}

\* stmt.data if stmt else {}
DataOf(stmt) == IF stmt = None THEN EmptyMap ELSE stmt[1].data

NarratorModes == {"unconfigured", "succeeds", "raises"}

\* what generate_financial_insights returns when the provider answers
NarratorText(language) == IF language = "en" THEN "insights in English" ELSE "insights in Hindi"

\* f"AI insights unavailable: {str(e)}" for the provider's exception
FallbackInsight == "AI insights unavailable: provider error"

InsightType == "financial_health_insight"

\* the recommendations the cache query of the health route matches
RecentInsights(recs, today, company_id, language) ==
    {r \in recs : /\ r.company_id = company_id
                  /\ r.recommendation_type = InsightType
                  /\ r.language = language
                  /\ r.generated_at >= today - 1}

NewInsight(today, company_id, language, text) ==
    [company_id |-> company_id, recommendation_type |-> InsightType,
     language |-> language, generated_at |-> today, detailed_insight |-> text]

\* an exception of the provider that is not caught
ProviderError == <<"raised", "provider error">>

\* the provider's exception leaves the narration step
Narrate_NoCatch(recs, today, company_id, language, include_ai_insights, narrator) ==
    IF ~(include_ai_insights /\ narrator # "unconfigured") THEN <<None, recs>>
    ELSE LET recent == RecentInsights(recs, today, company_id, language)
         IN  IF recent # {}
             THEN LET recent_rec ==
                        CHOOSE r \in recent : \A x \in recent : r.generated_at >= x.generated_at
                  IN  <<Some(recent_rec.detailed_insight), recs>>
             ELSE IF narrator = "succeeds"
                  THEN <<Some(NarratorText(language)),
                         recs \cup {NewInsight(today, company_id, language,
                                               NarratorText(language))}>>
                  ELSE <<ProviderError, recs>>

\* the narration step of the health route: <<ai_insights, recommendations>>
Narrate(recs, today, company_id, language, include_ai_insights, narrator) ==
    IF ~(include_ai_insights /\ narrator # "unconfigured") THEN <<None, recs>>
    ELSE LET recent == RecentInsights(recs, today, company_id, language)
         IN  IF recent # {}
             THEN LET recent_rec ==
                        CHOOSE r \in recent : \A x \in recent : r.generated_at >= x.generated_at
                  IN  <<Some(recent_rec.detailed_insight), recs>>
             ELSE IF narrator = "succeeds"
                  THEN <<Some(NarratorText(language)),
                         recs \cup {NewInsight(today, company_id, language,
                                               NarratorText(language))}>>
                  ELSE <<Some(FallbackInsight), recs>>

\* GET /analysis/{company_id}/health-score: [ret, recommendations]
get_financial_health_score(comps, txns, recs, today, balance_sheet_stmt, pl_stmt, company_id, current_user, language, include_ai_insights, narrator) ==
    IF OwnedCompany(comps, company_id, current_user) = None
    THEN [ret |-> Raise("HTTP 404: Company not found"), recommendations |-> recs]
    ELSE IF balance_sheet_stmt = None /\ pl_stmt = None
    THEN [ret |-> Raise("HTTP 400: At least one financial statement required for health score"),
          recommendations |-> recs]
    ELSE
    LET financial_data ==
            [balance_sheet |-> DataOf(balance_sheet_stmt), profit_loss |-> DataOf(pl_stmt)]
        ratios == calculate_all_ratios(financial_data)
        cash_flow_analysis == analyze_cash_flow(txns, today, company_id, 12)
        health_score == calculate_financial_health_score(ratios, cash_flow_analysis)
        narration == Narrate(recs, today, company_id, language, include_ai_insights,
                             narrator)
    IN  IF RatiosRaise(ratios)
        THEN [ret |-> Raise("ZeroDivisionError"), recommendations |-> recs]
        ELSE IF narration[1] = ProviderError
        THEN [ret |-> Raise(ProviderError[2]), recommendations |-> recs]
        ELSE [ret |->
                Return([company_id |-> company_id,
                        overall_score |-> health_score.total_score,
                        grade |-> health_score.grade,
                        score_breakdown |-> health_score.breakdown,
                        ratios |-> ratios,
                        cash_flow_summary |-> cash_flow_analysis,
                        ai_insights |-> narration[1]]),
              recommendations |-> narration[2]]

\* GET /analysis/{company_id}/ratios
calculate_financial_ratios(comps, today, balance_sheet_stmt, pl_stmt, company_id, current_user) ==
    IF OwnedCompany(comps, company_id, current_user) = None
    THEN Raise("HTTP 404: Company not found")
    ELSE IF balance_sheet_stmt = None /\ pl_stmt = None
    THEN Raise("HTTP 400: At least one financial statement (Balance Sheet or P&L) required for analysis")
    ELSE LET ratios ==
                calculate_all_ratios([balance_sheet |-> DataOf(balance_sheet_stmt),
                                      profit_loss |-> DataOf(pl_stmt)])
         IN  IF RatiosRaise(ratios) THEN Raise("ZeroDivisionError")
             ELSE Return([company_id |-> company_id, calculated_at |-> today] @@ ratios)

\* GET /analysis/{company_id}/cash-flow
analyze_cash_flow_route(comps, txns, today, company_id, months, current_user) ==
    IF OwnedCompany(comps, company_id, current_user) = None
    THEN Raise("HTTP 404: Company not found")
    ELSE Return([company_id |-> company_id, analysis_period_months |-> months,
                 analyzed_at |-> today]
                @@ analyze_cash_flow(txns, today, company_id, months))

-----------------------------------------------------------------------------
(* The service: the tables and the requests *)

Users == {1, 2}

\* the ids the Company table hands out
CompanyIds == {1}

MaxStatements == 2

MaxDay == 2

MaxUploads == 1

\* the language query parameter
Languages == {"en"}

StatementRow(company_id, statement_type, period_end, data) ==
    [company_id |-> company_id, statement_type |-> statement_type,
     period_end |-> period_end, data |-> data]

\* the statements an upload stores: two balance sheets of the same period, a later one
\* and a profit and loss statement
UploadedStatements ==
    {StatementRow(1, "balance_sheet", 1, BS_Example),
     StatementRow(1, "balance_sheet", 1, BS_Negative),
     StatementRow(1, "balance_sheet", 2, BS_Negative),
     StatementRow(1, "profit_loss", 1, PL_Example)}

\* the row an upload stores: it leaves the 12-month window after day 0
UploadedTransactions == {TxnRow(1, -360, cat_Salary, 2000)}

\* POST /companies
create_company ==
    /\ ret.kind = "idle"
    /\ \E current_user \in Users :
        LET id == Cardinality(DOMAIN companies) + 1
        IN  /\ id \in CompanyIds
            /\ companies' = companies @@ (id :> CompanyRow(current_user, None, None))
    /\ UNCHANGED <<statements, transactions, recommendations, now, call, ret>>

\* POST /upload/{company_id}/statement, for the owner of the company
upload_financial_statement ==
    /\ ret.kind = "idle"
    /\ Cardinality(statements) < MaxStatements
    /\ \E stmt \in UploadedStatements \ statements, current_user \in Users :
        /\ OwnedCompany(companies, stmt.company_id, current_user) # None
        /\ statements' = statements \cup {stmt}
    /\ UNCHANGED <<companies, transactions, recommendations, now, call, ret>>

\* POST /upload/{company_id}/transactions, for the owner of the company
upload_transactions ==
    /\ ret.kind = "idle"
    /\ SumValues(transactions) < MaxUploads
    /\ \E row \in UploadedTransactions, current_user \in Users :
        /\ OwnedCompany(companies, row.company_id, current_user) # None
        /\ transactions' = AddRow(transactions, row)
    /\ UNCHANGED <<companies, statements, recommendations, now, call, ret>>

\* a day passes
Tick ==
    /\ ret.kind = "idle"
    /\ now < MaxDay
    /\ now' = now + 1
    /\ UNCHANGED <<companies, statements, transactions, recommendations, call, ret>>

Request_health_score ==
    /\ ret.kind = "idle"
    /\ \E company_id \in CompanyIds, current_user \in Users, language \in Languages,
          include_ai_insights \in BOOLEAN, narrator \in NarratorModes :
       \E balance_sheet_stmt \in LatestStatement(statements, company_id, "balance_sheet"),
          pl_stmt \in LatestStatement(statements, company_id, "profit_loss") :
        LET out == get_financial_health_score(companies, transactions, recommendations,
                                              now, balance_sheet_stmt, pl_stmt,
                                              company_id, current_user, language,
                                              include_ai_insights, narrator)
        IN  /\ call' = [fn |-> "get_financial_health_score",
                        args |-> <<company_id, current_user, language,
                                   include_ai_insights, narrator>>,
                        rows |-> <<balance_sheet_stmt, pl_stmt>>]
            /\ ret' = out.ret
            /\ recommendations' = out.recommendations
    /\ UNCHANGED <<companies, statements, transactions, now>>

Request_ratios ==
    /\ ret.kind = "idle"
    /\ \E company_id \in CompanyIds, current_user \in Users :
       \E balance_sheet_stmt \in LatestStatement(statements, company_id, "balance_sheet"),
          pl_stmt \in LatestStatement(statements, company_id, "profit_loss") :
        /\ call' = [fn |-> "calculate_financial_ratios",
                    args |-> <<company_id, current_user>>,
                    rows |-> <<balance_sheet_stmt, pl_stmt>>]
        /\ ret' = calculate_financial_ratios(companies, now, balance_sheet_stmt, pl_stmt,
                                             company_id, current_user)
    /\ UNCHANGED db_vars

Request_cash_flow ==
    /\ ret.kind = "idle"
    /\ \E company_id \in CompanyIds, current_user \in Users, months \in {1, 12} :
        /\ call' = [fn |-> "analyze_cash_flow_route",
                    args |-> <<company_id, current_user, months>>]
        /\ ret' = analyze_cash_flow_route(companies, transactions, now, company_id,
                                          months, current_user)
    /\ UNCHANGED db_vars

Next ==
    \/ create_company
    \/ upload_financial_statement
    \/ upload_transactions
    \/ Tick
    \/ Request_health_score
    \/ Request_ratios
    \/ Request_cash_flow
    \/ Deliver

Spec == Init /\ [][Next]_vars

-----------------------------------------------------------------------------
(* Properties of the health-score route *)

\* what a health-score outcome holds besides the narration: the score fields of a
\* response, or the error of an aborted request
ScoreFields(r) ==
    IF r.kind = "return"
    THEN [kind |-> "return",
          overall_score |-> r.value.overall_score,
          grade |-> r.value.grade,
          score_breakdown |-> r.value.score_breakdown,
          ratios |-> r.value.ratios,
          cash_flow_summary |-> r.value.cash_flow_summary]
    ELSE r

\* this step serves a health-score request
HealthServed == ret.kind = "idle" /\ call'.fn = "get_financial_health_score"

\* the same request on the same tables and rows, under another narrator and flag
SameRequest(include_ai_insights, narrator) ==
    get_financial_health_score(companies, transactions, recommendations, now,
                               call'.rows[1], call'.rows[2], call'.args[1],
                               call'.args[2], call'.args[3], include_ai_insights,
                               narrator)

\* the narrator this request ran was reached (asked for, configured, nothing cached)
\* and raised
NarratorRaised ==
    /\ call'.args[4]
    /\ call'.args[5] = "raises"
    /\ RecentInsights(recommendations, now, call'.args[1], call'.args[3]) = {}

\* the narrator succeeds, raises, is disabled, is unconfigured
NarratorScenarios ==
    {<<TRUE, "succeeds">>, <<TRUE, "raises">>, <<FALSE, "succeeds">>,
     <<TRUE, "unconfigured">>}

\* C10: a health-score request gives the same outcome apart from ai_insights (the same
\* overall_score, grade, score_breakdown, ratios and cash_flow_summary, or the same error)
\* whether the narrator succeeds, raises, is disabled or is unconfigured, so a narrator
\* that raises aborts no request the other narrators answer; the response then holds
\* the fallback string in ai_insights and no recommendation is stored
C10_NarrationNeverChangesScore ==
    [][HealthServed =>
        /\ \A scenario \in NarratorScenarios :
              ScoreFields(SameRequest(scenario[1], scenario[2]).ret) = ScoreFields(ret')
        /\ NarratorRaised =>
              /\ recommendations' = recommendations
              /\ ret'.kind = "return" => ret'.value.ai_insights = Some(FallbackInsight)]_vars

\* a request whose narrator raised was answered with scores and the fallback string
C10_Witness ==
    /\ call.fn = "get_financial_health_score"
    /\ call.args[4]
    /\ call.args[5] = "raises"
    /\ ret.kind = "return"
    /\ ret.value.ai_insights = Some(FallbackInsight)
    /\ ret.value.overall_score > 0

-----------------------------------------------------------------------------
(* Properties of the strengths and weaknesses of a credit score *)

CreditReturned == CreditCalled /\ ret.kind = "return"

InSeq(x, seq) == \E i \in 1..Len(seq) : seq[i] = x

\* the name component_scores gives the component stored under a breakdown key
ListedAs(component) == IF component = "business_stability" THEN "stability" ELSE component

ComponentMax ==
    [payment_history |-> 250, credit_utilization |-> 200, liquidity |-> 200,
     profitability |-> 150, business_stability |-> 100]

\* C11: a component of a credit score result is listed in strengths iff its score is at
\* least 80% of its max, and in weaknesses iff its score is below 60% of its max (maxima
\* 250, 200, 200, 150, 100); so exactly 80% is a strength, exactly 60% is in neither
\* list, no component is in both, and the lists hold nothing but listed components
C11_StrengthsAndWeaknesses ==
    CreditReturned =>
        LET v == ret.value
        IN  /\ DOMAIN v.breakdown = DOMAIN ComponentMax
            /\ \A c \in DOMAIN v.breakdown :
                LET b == v.breakdown[c]
                IN  /\ b.max = ComponentMax[c]
                    /\ InSeq(ListedAs(c), v.strengths) <=> b.score * 100 >= 80 * b.max
                    /\ InSeq(ListedAs(c), v.weaknesses) <=> b.score * 100 < 60 * b.max
                    /\ ~(InSeq(ListedAs(c), v.strengths) /\ InSeq(ListedAs(c), v.weaknesses))
            /\ \A i \in 1..Len(v.strengths) :
                \E c \in DOMAIN v.breakdown : v.strengths[i] = ListedAs(c)
            /\ \A i \in 1..Len(v.weaknesses) :
                \E c \in DOMAIN v.breakdown : v.weaknesses[i] = ListedAs(c)

\* credit utilization at exactly 80% is a strength, payment history at exactly 60% is in
\* neither list, and profitability is a weakness
C11_Witness ==
    /\ CreditReturned
    /\ ret.value.breakdown.credit_utilization.score = 160
    /\ InSeq("credit_utilization", ret.value.strengths)
    /\ ret.value.breakdown.payment_history.score = 150
    /\ ~InSeq("payment_history", ret.value.strengths)
    /\ ~InSeq("payment_history", ret.value.weaknesses)
    /\ InSeq("profitability", ret.value.weaknesses)

\* C12: every name in strengths or weaknesses of a credit score result is a key of the
\* breakdown mapping of the same result
C12_ListedNamesAreBreakdownKeys ==
    CreditReturned =>
        /\ \A i \in 1..Len(ret.value.strengths) :
              ret.value.strengths[i] \in DOMAIN ret.value.breakdown
        /\ \A i \in 1..Len(ret.value.weaknesses) :
              ret.value.weaknesses[i] \in DOMAIN ret.value.breakdown

-----------------------------------------------------------------------------
(* Properties of the liquidity ratios *)

RatiosReturned == RatiosCalled /\ ret.kind = "return"

\* the current-asset labels that name cash or a bank balance, and those that name
\* inventory, among the labels of the statements
CashLabels == {L_cash, L_bank, L_CashInHand, L_BankBalance, L_CashAtBank}
InventoryLabels == {L_inventory, L_INVENTORY}

\* the sum of the items whose label is in labels, each item once
SumOfLabels(items, labels) == SumKeys(items, DOMAIN items \cap labels)

\* x is the quotient n / d
IsQuotient(x, n, d) == IsNum(x) /\ x[1] * d = n * x[2]

\* C13: when the current liabilities sum to more than 0, current_ratio is
\* sum(current_assets) / sum(current_liabilities), quick_ratio is (sum(current_assets) -
\* inventory) / sum(current_liabilities) and cash_ratio is cash / sum(current_liabilities),
\* with inventory the items labelled inventory and cash the items labelled cash or bank
\* in any case, an item labelled with both counted once; for cash 100, bank 50,
\* receivable 30, inventory 20 over payable 100 the ratios are 2.0, 1.8 and 1.5
C13_LiquidityRatios ==
    (RatiosReturned /\ ArgCurrentLiabilities > 0) =>
        LET liquidity == ret.value.liquidity
            assets == SumValues(ArgCurrentAssets)
            inventory == SumOfLabels(ArgCurrentAssets, InventoryLabels)
            cash == SumOfLabels(ArgCurrentAssets, CashLabels)
        IN  /\ IsQuotient(liquidity.current_ratio, assets, ArgCurrentLiabilities)
            /\ IsQuotient(liquidity.quick_ratio, assets - inventory, ArgCurrentLiabilities)
            /\ IsQuotient(liquidity.cash_ratio, cash, ArgCurrentLiabilities)
            /\ ArgBalanceSheet = BS_Example =>
                /\ liquidity.current_ratio = <<2, 1>>
                /\ liquidity.quick_ratio = <<9, 5>>
                /\ liquidity.cash_ratio = <<3, 2>>

\* the sheet with 'Cash at Bank' 70 and 'cash' 10 over payable 60: cash is 80
C13_Witness ==
    /\ RatiosReturned
    /\ ArgBalanceSheet = BS_CashAtBank
    /\ ret.value.liquidity.cash_ratio = <<4, 3>>
    /\ ret.value.liquidity.quick_ratio = <<11, 6>>

-----------------------------------------------------------------------------
(* Properties of the cash-flow analysis *)

CashFlowAnalysed == CashFlowCalled /\ ret.kind = "return" /\ ~ArgWindowEmpty

\* the rows of the call's table inside its window
ArgWindow ==
    {t \in DOMAIN call.args[1] :
        /\ call.args[1][t] > 0
        /\ t.company_id = call.args[3]
        /\ t.transaction_date >= call.args[2] - call.args[4] * 30}

\* the bucket of each category of the transaction inputs, by the first keyword group
\* (revenue; expense, cost, salary; asset, equipment, investment; loan, equity,
\* financing) its text contains
BucketOfCategory(category) ==
    CASE category \in {cat_Revenue, cat_cost_of_revenue} -> "operating_inflows"
      [] category \in {cat_expense, cat_Salary} -> "operating_outflows"
      [] category = cat_equipment_loan -> "investing_outflows"
      [] category = cat_loan -> "financing_inflows"
      [] OTHER -> "none"

\* the sum over the window of the amounts (absolute or signed) of one bucket
RECURSIVE WindowSum(_, _, _, _)
WindowSum(txns, rows, bucket, absolute) ==
    IF rows = {} THEN 0
    ELSE LET t == CHOOSE x \in rows : TRUE
             amount == IF absolute /\ t.amount < 0 THEN -t.amount ELSE t.amount
         IN  (IF BucketOfCategory(t.category) = bucket THEN txns[t] * amount ELSE 0)
             + WindowSum(txns, rows \ {t}, bucket, absolute)

ArgSum(bucket, absolute) == WindowSum(call.args[1], ArgWindow, bucket, absolute)

\* the table of the example: revenue 1000 and expense -400
ExampleTable ==
    (TxnRow(1, -30, cat_Revenue, 1000) :> 1) @@ (TxnRow(1, -30, cat_expense, -400) :> 1)

\* C14: for a non-empty window analyze_cash_flow returns operating net = operating
\* inflows - operating outflows, investing net = -(investing outflows), financing net =
\* financing inflows and total_net_cash_flow = the sum of the three nets, the operating
\* and investing outflows being sums of absolute amounts and the inflows sums of
\* amounts; for revenue 1000 and expense -400 operating net and total are both 600
C14_CashFlowNets ==
    CashFlowAnalysed =>
        LET v == ret.value
        IN  /\ v.operating_cash_flow.inflows = ArgSum("operating_inflows", FALSE)
            /\ v.operating_cash_flow.outflows = ArgSum("operating_outflows", TRUE)
            /\ v.investing_cash_flow.outflows = ArgSum("investing_outflows", TRUE)
            /\ v.financing_cash_flow.inflows = ArgSum("financing_inflows", FALSE)
            /\ v.operating_cash_flow.net
                  = v.operating_cash_flow.inflows - v.operating_cash_flow.outflows
            /\ v.investing_cash_flow.net = -v.investing_cash_flow.outflows
            /\ v.financing_cash_flow.net = v.financing_cash_flow.inflows
            /\ v.total_net_cash_flow
                  = v.operating_cash_flow.net + v.investing_cash_flow.net
                    + v.financing_cash_flow.net
            /\ call.args[1] = ExampleTable =>
                  (v.operating_cash_flow.net = 600 /\ v.total_net_cash_flow = 600)

\* an expense stored as -400 and an equipment purchase stored as -500: both outflows are
\* positive and the total is -900
C14_Witness ==
    /\ CashFlowAnalysed
    /\ call.args[1] = (TxnRow(1, -30, cat_expense, -400) :> 1)
                      @@ (TxnRow(1, -30, cat_equipment_loan, -500) :> 1)
    /\ ret.value.operating_cash_flow.outflows = 400
    /\ ret.value.investing_cash_flow.net = -500
    /\ ret.value.total_net_cash_flow = -900

\* C15: the result of analyze_cash_flow holds monthly_burn_rate iff operating net < 0,
\* and then its value is |operating net| / months; it is absent when operating net is 0
\* or positive
C15_BurnRate ==
    CashFlowAnalysed =>
        LET v == ret.value
            net == v.operating_cash_flow.net
        IN  /\ "monthly_burn_rate" \in DOMAIN v <=> net < 0
            /\ net < 0 => IsQuotient(v.monthly_burn_rate, -net, call.args[4])

\* a net of -2000 over 12 months burns 500/3 a month
C15_Witness ==
    /\ CashFlowAnalysed
    /\ call.args[4] = 12
    /\ ret.value.operating_cash_flow.net = -2000
    /\ ret.value.monthly_burn_rate = <<500, 3>>

\* the transactions of the window all have a category that is absent or holds no keyword
ArgOnlyUncategorised ==
    /\ ArgWindow # {}
    /\ \A t \in ArgWindow : t.category \in {cat_None, cat_misc}

\* C16: a transaction whose category is absent or contains no keyword adds to no bucket
\* and causes no error: the sums are those of the other transactions, and a window of
\* such transactions only gives a normal analysis with every inflow, outflow and net 0
\* and no monthly_burn_rate, not the no-data mapping
C16_UncategorisedIgnored ==
    CashFlowCalled =>
        /\ ret.kind = "return"
        /\ CashFlowAnalysed =>
            LET v == ret.value
                others == {t \in ArgWindow : t.category \notin {cat_None, cat_misc}}
            IN  /\ v.operating_cash_flow.inflows
                      = WindowSum(call.args[1], others, "operating_inflows", FALSE)
                /\ v.operating_cash_flow.outflows
                      = WindowSum(call.args[1], others, "operating_outflows", TRUE)
                /\ v.investing_cash_flow.outflows
                      = WindowSum(call.args[1], others, "investing_outflows", TRUE)
                /\ v.financing_cash_flow.inflows
                      = WindowSum(call.args[1], others, "financing_inflows", FALSE)
        /\ ArgOnlyUncategorised =>
              ret.value =
                [operating_cash_flow |-> [inflows |-> 0, outflows |-> 0, net |-> 0],
                 investing_cash_flow |-> [outflows |-> 0, net |-> 0],
                 financing_cash_flow |-> [inflows |-> 0, net |-> 0],
                 total_net_cash_flow |-> 0]

\* a window holding one transaction without category and one labelled misc
C16_Witness ==
    /\ CashFlowCalled
    /\ ArgOnlyUncategorised
    /\ \E t \in ArgWindow : t.category = cat_None
    /\ \E t \in ArgWindow : t.category = cat_misc
    /\ ret.kind = "return"
    /\ ret.value.total_net_cash_flow = 0
    /\ "monthly_burn_rate" \notin DOMAIN ret.value

-----------------------------------------------------------------------------
(* Properties of the percentage ratios *)

NonNegative(items) == \A k \in DOMAIN items : items[k] >= 0

\* the data-model invariants of a balance sheet: every section present, no negative
\* line item, every total the sum of its parts
ValidBalanceSheet(bs) ==
    /\ {"assets", "liabilities", "equity"} \subseteq DOMAIN bs
    /\ {"current_assets", "fixed_assets", "total_assets"} \subseteq DOMAIN bs.assets
    /\ {"current_liabilities", "long_term_liabilities", "total_liabilities"}
          \subseteq DOMAIN bs.liabilities
    /\ {"items", "total_equity"} \subseteq DOMAIN bs.equity
    /\ NonNegative(bs.assets.current_assets) /\ NonNegative(bs.assets.fixed_assets)
    /\ NonNegative(bs.liabilities.current_liabilities)
    /\ NonNegative(bs.liabilities.long_term_liabilities)
    /\ NonNegative(bs.equity.items)
    /\ bs.assets.total_assets
          = SumValues(bs.assets.current_assets) + SumValues(bs.assets.fixed_assets)
    /\ bs.liabilities.total_liabilities
          = SumValues(bs.liabilities.current_liabilities)
            + SumValues(bs.liabilities.long_term_liabilities)
    /\ bs.equity.total_equity = SumValues(bs.equity.items)

\* the data-model invariants of a profit-and-loss statement: no negative line item,
\* totals the sums of their parts, profits derived from revenue and expenses
ValidProfitLoss(pl) ==
    /\ {"revenue", "expenses", "profit"} \subseteq DOMAIN pl
    /\ {"items", "total_revenue"} \subseteq DOMAIN pl.revenue
    /\ {"cost_of_goods_sold", "operating_expenses", "other_expenses", "total_expenses"}
          \subseteq DOMAIN pl.expenses
    /\ {"gross_profit", "operating_profit", "net_profit"} \subseteq DOMAIN pl.profit
    /\ NonNegative(pl.revenue.items) /\ pl.expenses.cost_of_goods_sold >= 0
    /\ NonNegative(pl.expenses.operating_expenses)
    /\ NonNegative(pl.expenses.other_expenses)
    /\ pl.revenue.total_revenue = SumValues(pl.revenue.items)
    /\ pl.expenses.total_expenses
          = pl.expenses.cost_of_goods_sold + SumValues(pl.expenses.operating_expenses)
            + SumValues(pl.expenses.other_expenses)
    /\ pl.profit.gross_profit = pl.revenue.total_revenue - pl.expenses.cost_of_goods_sold
    /\ pl.profit.operating_profit
          = pl.profit.gross_profit - SumValues(pl.expenses.operating_expenses)
    /\ pl.profit.net_profit
          = pl.profit.operating_profit - SumValues(pl.expenses.other_expenses)

ArgValid ==
    /\ {"balance_sheet", "profit_loss"} \subseteq DOMAIN call.args[1]
    /\ ValidBalanceSheet(call.args[1].balance_sheet)
    /\ ValidProfitLoss(call.args[1].profit_loss)

ArgProfit(name) == Get(Get(ArgProfitLoss, "profit", EmptyMap), name, 0)
ArgTotalLiabilities ==
    Get(Get(ArgBalanceSheet, "liabilities", EmptyMap), "total_liabilities", 0)

\* the percentage-style ratios: <<group, name, numerator, denominator>>
PercentageRatios ==
    {<<"profitability", "gross_profit_margin", ArgProfit("gross_profit"), ArgTotalRevenue>>,
     <<"profitability", "operating_profit_margin", ArgProfit("operating_profit"),
       ArgTotalRevenue>>,
     <<"profitability", "net_profit_margin", ArgProfit("net_profit"), ArgTotalRevenue>>,
     <<"profitability", "return_on_assets", ArgProfit("net_profit"), ArgTotalAssets>>,
     <<"profitability", "return_on_equity", ArgProfit("net_profit"), ArgTotalEquity>>,
     <<"leverage", "debt_to_assets", ArgTotalLiabilities, ArgTotalAssets>>,
     <<"leverage", "equity_ratio", ArgTotalEquity, ArgTotalAssets>>}

InPercentRange(x) == IsNum(x) /\ RGe(x, R(0)) /\ RLe(x, R(100))

-----------------------------------------------------------------------------
(* A caller that keeps its statement structures across calls *)

\* the sections read with setdefault: a missing section is stored as an empty mapping
financial_data_after_SetDefault(financial_data) ==
    [k \in DOMAIN financial_data \cup {"balance_sheet", "profit_loss"} |->
        Get(financial_data, k, EmptyMap)]

\* the caller's financial_data once calculate_all_ratios has returned: the function
\* and the calculators it calls read the mapping with get() and assign nothing into it
financial_data_after(financial_data) == financial_data

\* the structures a caller holds
SessionInputs ==
    {FinancialData(BS_Example, PL_Example),
     FinancialData(BS_CashAtBank, ProfitLossOf(1000, 600, 500)),
     FinancialData(BS_Negative, PL_Example),
     FinancialData(EmptyMap, EmptyMap),
     [balance_sheet |-> BS_Example],
     EmptyMap}

MaxCalls == 3

SessionFns == {"begin", "calculate_all_ratios", "calculate_financial_health_score"}

\* the caller builds two structures, which may be equal
Session_begin ==
    /\ call = NoCall
    /\ ret.kind = "idle"
    /\ \E a \in SessionInputs, b \in SessionInputs :
        call' = [fn |-> "begin", args |-> <<>>, original |-> <<a, b>>,
                 held |-> <<a, b>>, results |-> <<>>]
    /\ ret' = Idle
    /\ UNCHANGED db_vars

\* calculate_all_ratios on one of the held structures, as it is by now
Session_calculate_all_ratios ==
    /\ call.fn \in SessionFns
    /\ Len(call.results) < MaxCalls
    /\ \E i \in {1, 2} :
        LET financial_data == call.held[i]
            ratios == calculate_all_ratios(financial_data)
            outcome == IF RatiosRaise(ratios) THEN Raise("ZeroDivisionError")
                       ELSE Return(ratios)
        IN  /\ call' = [call EXCEPT !.fn = "calculate_all_ratios",
                                    !.args = <<financial_data>>,
                                    !.held[i] = financial_data_after(financial_data),
                                    !.results = Append(@, <<i, outcome>>)]
            /\ ret' = outcome
    /\ UNCHANGED db_vars

\* another scoring call between two ratio calls: the health score of the ratios
Session_calculate_financial_health_score ==
    /\ call.fn = "calculate_all_ratios"
    /\ ret.kind = "return"
    /\ \E cash_flow \in {NoTransactionData, [total_net_cash_flow |-> 600]} :
        /\ call' = [call EXCEPT !.fn = "calculate_financial_health_score",
                                !.args = <<ret.value, cash_flow>>]
        /\ ret' = Return(calculate_financial_health_score(ret.value, cash_flow))
    /\ UNCHANGED db_vars

\* the caller drops its structures
Session_end ==
    /\ call.fn \in SessionFns
    /\ call' = NoCall
    /\ ret' = Idle
    /\ UNCHANGED db_vars

SessionNext ==
    \/ Session_begin
    \/ Session_calculate_all_ratios
    \/ Session_calculate_financial_health_score
    \/ Session_end

SessionSpec == Init /\ [][SessionNext]_vars

InSession == call.fn \in SessionFns

-----------------------------------------------------------------------------
(* Properties of the payment history and credit utilization scores *)

PaymentCalled == call.fn = "calculate_payment_history_score"
UtilizationCalled == call.fn = "calculate_credit_utilization_score"

\* the stored transactions of a company, each row counted as often as it is stored
RECURSIVE CountOf(_, _, _)
CountOf(txns, rows, company_id) ==
    IF rows = {} THEN 0
    ELSE LET t == CHOOSE x \in rows : TRUE
         IN  (IF t.company_id = company_id THEN txns[t] ELSE 0)
             + CountOf(txns, rows \ {t}, company_id)

\* the score of a sample of min(count, 100) transactions
PaymentTable(count) ==
    LET sample == IF count > 100 THEN 100 ELSE count
    IN  IF sample = 0 THEN 150 ELSE IF sample <= 9 THEN 200 ELSE 250

\* C19: calculate_payment_history_score returns 150 when the sample of the company's
\* transactions (at most 100 of them) is empty, 200 when it holds 1 to 9 transactions and
\* 250 when it holds 10 or more, and no other value; the payment_history component of a
\* credit score is that score
C19_PaymentHistoryScore ==
    /\ PaymentCalled =>
        /\ ret.kind = "return"
        /\ ret.value.score \in {150, 200, 250}
        /\ ret.value.score
              = PaymentTable(CountOf(call.args[1], DOMAIN call.args[1], call.args[2]))
    /\ CreditReturned =>
          ret.value.breakdown.payment_history.score
              = PaymentTable(CountOf(call.args[2], DOMAIN call.args[2], call.args[4]))

\* nine transactions of the company beside ten of another company: 200
C19_Witness ==
    /\ PaymentCalled
    /\ call.args[2] = 1
    /\ CountOf(call.args[1], DOMAIN call.args[1], 1) = 9
    /\ CountOf(call.args[1], DOMAIN call.args[1], 2) = 10
    /\ ret.kind = "return"
    /\ ret.value.score = 200

\* debt_to_equity as the call reads it: a missing value is 0
ArgDebtToEquity ==
    LET fd == call.args[1]
    IN  IF "ratios" \in DOMAIN fd /\ "leverage" \in DOMAIN fd.ratios
           /\ "debt_to_equity" \in DOMAIN fd.ratios.leverage
        THEN fd.ratios.leverage.debt_to_equity
        ELSE <<0, 1>>

\* the ordered table on a ratio n / d with d > 0
UtilizationTable(x) ==
    IF x[1] = 0 THEN 200
    ELSE IF 2 * x[1] < x[2] THEN 180
    ELSE IF x[1] < x[2] THEN 160
    ELSE IF x[1] < 2 * x[2] THEN 120
    ELSE 80

\* C20: calculate_credit_utilization_score maps debt_to_equity to a score by the ordered
\* table: exactly 0 gives 200, otherwise below 0.5 gives 180, below 1.0 gives 160, below
\* 2.0 gives 120, else 80 (so 0.5 gives 160, 1.0 gives 120 and 2.0 gives 80), and a
\* missing debt_to_equity is treated as 0
C20_CreditUtilizationScore ==
    UtilizationCalled =>
        /\ ret.kind = "return"
        /\ ret.value.score = UtilizationTable(ArgDebtToEquity)
        /\ ArgDebtToEquity = <<1, 2>> => ret.value.score = 160
        /\ ArgDebtToEquity = <<1, 1>> => ret.value.score = 120
        /\ ArgDebtToEquity = <<2, 1>> => ret.value.score = 80
        /\ "ratios" \notin DOMAIN call.args[1] => ret.value.score = 200

\* the boundary 0.5 itself scores 160
C20_Witness ==
    /\ UtilizationCalled
    /\ ArgDebtToEquity = <<1, 2>>
    /\ ret.kind = "return"
    /\ ret.value.score = 160

-----------------------------------------------------------------------------
(* Properties of the liquidity, profitability and stability scores *)

LiquidityCalled == call.fn = "calculate_liquidity_score"
ProfitabilityCalled == call.fn = "calculate_profitability_score"
StabilityCalled == call.fn = "calculate_business_stability_score"

\* a ratio of the liquidity group as the call reads it: a missing value is 0
ArgRatio(group, name) ==
    LET fd == call.args[1]
    IN  IF "ratios" \in DOMAIN fd /\ group \in DOMAIN fd.ratios
           /\ name \in DOMAIN fd.ratios[group]
        THEN fd.ratios[group][name]
        ELSE <<0, 1>>

\* x = n / d with d > 0 is at least a / b with b > 0
AtLeast(x, a, b) == x[1] * b >= a * x[2]

CurrentRatioTable(x) ==
    IF AtLeast(x, 2, 1) THEN 100 ELSE IF AtLeast(x, 3, 2) THEN 80
    ELSE IF AtLeast(x, 1, 1) THEN 60 ELSE 30

QuickRatioTable(x) ==
    IF AtLeast(x, 3, 2) THEN 100 ELSE IF AtLeast(x, 1, 1) THEN 80
    ELSE IF AtLeast(x, 3, 4) THEN 60 ELSE 30

\* C21: calculate_liquidity_score returns the sum of two independent sub-tiers, capped at
\* 200: current_ratio >= 2.0 gives 100, >= 1.5 gives 80, >= 1.0 gives 60, else 30;
\* quick_ratio >= 1.5 gives 100, >= 1.0 gives 80, >= 0.75 gives 60, else 30; so the
\* result is always between 60 and 200
C21_LiquidityScore ==
    LiquidityCalled =>
        LET sum == CurrentRatioTable(ArgRatio("liquidity", "current_ratio"))
                   + QuickRatioTable(ArgRatio("liquidity", "quick_ratio"))
        IN  /\ ret.kind = "return"
            /\ ret.value.score = (IF sum > 200 THEN 200 ELSE sum)
            /\ ret.value.score >= 60 /\ ret.value.score <= 200

\* a quick ratio of exactly 0.75 beside a current ratio of 1.49: 60 + 60
C21_Witness ==
    /\ LiquidityCalled
    /\ ArgRatio("liquidity", "quick_ratio") = <<3, 4>>
    /\ ArgRatio("liquidity", "current_ratio") = <<149, 100>>
    /\ ret.kind = "return"
    /\ ret.value.score = 120

ProfitabilityTable(x) ==
    IF AtLeast(x, 20, 1) THEN 150 ELSE IF AtLeast(x, 15, 1) THEN 130
    ELSE IF AtLeast(x, 10, 1) THEN 110 ELSE IF AtLeast(x, 5, 1) THEN 80
    ELSE IF x[1] > 0 THEN 50 ELSE 0

\* C22: calculate_profitability_score maps net_profit_margin to a score by inclusive
\* lower bounds: >= 20 gives 150, >= 15 gives 130, >= 10 gives 110, >= 5 gives 80, > 0
\* gives 50, and <= 0, a missing margin included, gives 0
C22_ProfitabilityScore ==
    ProfitabilityCalled =>
        /\ ret.kind = "return"
        /\ ret.value.score
              = ProfitabilityTable(ArgRatio("profitability", "net_profit_margin"))
        /\ "ratios" \notin DOMAIN call.args[1] => ret.value.score = 0

\* a margin of exactly 5 scores 80
C22_Witness ==
    /\ ProfitabilityCalled
    /\ ArgRatio("profitability", "net_profit_margin") = <<5, 1>>
    /\ ret.kind = "return"
    /\ ret.value.score = 80

\* the years part for a company founded on a known day: years are days / 365
YearsTable(days) ==
    IF days >= 3650 THEN 50 ELSE IF days >= 1825 THEN 40 ELSE IF days >= 1095 THEN 30
    ELSE IF days >= 365 THEN 20 ELSE 10

RevenueTable(revenue) ==
    IF revenue >= 10000000 THEN 50 ELSE IF revenue >= 5000000 THEN 40
    ELSE IF revenue >= 1000000 THEN 30 ELSE 20

\* C23: calculate_business_stability_score returns min(100, years part + revenue part):
\* the years part is 50/40/30/20/10 for years in business >= 10 / >= 5 / >= 3 / >= 1 /
\* otherwise and 20 when founded_date is unknown, the revenue part is 50/40/30/20 for
\* annual_revenue >= 10,000,000 / >= 5,000,000 / >= 1,000,000 / otherwise and 20 when
\* annual_revenue is unknown; with neither known the score is exactly 40
C23_BusinessStabilityScore ==
    StabilityCalled =>
        LET company == call.args[1]
            years == IF company.founded_date = None THEN 20
                     ELSE YearsTable(call.args[2] - company.founded_date[1])
            revenue == IF company.annual_revenue = None THEN 20
                       ELSE RevenueTable(company.annual_revenue[1])
            sum == years + revenue
        IN  /\ ret.kind = "return"
            /\ ret.value.score = (IF sum > 100 THEN 100 ELSE sum)
            /\ (company.founded_date = None /\ company.annual_revenue = None)
                  => ret.value.score = 40

\* five years to the day and a revenue of exactly 5,000,000: 40 + 40
C23_Witness ==
    /\ StabilityCalled
    /\ call.args[1].founded_date = Some(call.args[2] - 1825)
    /\ call.args[1].annual_revenue = Some(5000000)
    /\ ret.kind = "return"
    /\ ret.value.score = 80

-----------------------------------------------------------------------------
(* The tiers of the health breakdown *)

\* a ratio as calculate_financial_health_score reads it: a missing value is 0
HealthArg(group, name) ==
    LET ratios == call.args[1]
    IN  IF group \in DOMAIN ratios /\ name \in DOMAIN ratios[group]
        THEN ratios[group][name]
        ELSE <<0, 1>>

\* x = n / d with d > 0 is at most a / b with b > 0
AtMost(x, a, b) == x[1] * b <= a * x[2]

ArgNetCashFlow ==
    IF "total_net_cash_flow" \in DOMAIN call.args[2]
    THEN call.args[2].total_net_cash_flow
    ELSE 0

HealthBreakdownTable ==
    LET current_ratio == HealthArg("liquidity", "current_ratio")
        net_margin == HealthArg("profitability", "net_profit_margin")
        debt_to_equity == HealthArg("leverage", "debt_to_equity")
        asset_turnover == HealthArg("efficiency", "asset_turnover")
    IN  [liquidity |->
            IF AtLeast(current_ratio, 2, 1) THEN 25
            ELSE IF AtLeast(current_ratio, 3, 2) THEN 20
            ELSE IF AtLeast(current_ratio, 1, 1) THEN 15 ELSE 5,
         profitability |->
            IF AtLeast(net_margin, 20, 1) THEN 30
            ELSE IF AtLeast(net_margin, 10, 1) THEN 20
            ELSE IF AtLeast(net_margin, 5, 1) THEN 15
            ELSE IF net_margin[1] > 0 THEN 10 ELSE 0,
         leverage |->
            IF AtMost(debt_to_equity, 1, 2) THEN 20
            ELSE IF AtMost(debt_to_equity, 1, 1) THEN 15
            ELSE IF AtMost(debt_to_equity, 2, 1) THEN 10 ELSE 5,
         efficiency |->
            IF AtLeast(asset_turnover, 2, 1) THEN 15
            ELSE IF AtLeast(asset_turnover, 1, 1) THEN 10 ELSE 5,
         cash_flow |-> IF ArgNetCashFlow > 0 THEN 10 ELSE 0]

\* C24: the health breakdown entries follow fixed tiers: liquidity from current_ratio
\* (>= 2.0 gives 25, >= 1.5 gives 20, >= 1.0 gives 15, else 5), profitability from
\* net_profit_margin (>= 20 gives 30, >= 10 gives 20, >= 5 gives 15, > 0 gives 10, else
\* 0), leverage from debt_to_equity (<= 0.5 gives 20, <= 1.0 gives 15, <= 2.0 gives 10,
\* else 5), efficiency from asset_turnover (>= 2.0 gives 15, >= 1.0 gives 10, else 5),
\* and cash_flow is 10 if total_net_cash_flow > 0 and 0 otherwise
C24_HealthBreakdownTiers ==
    HealthCalled =>
        /\ ret.kind = "return"
        /\ ret.value.breakdown = HealthBreakdownTable

\* every ratio exactly on a boundary: 1.5, 10, 1.0 and 1.0, with a positive cash flow
C24_Witness ==
    /\ HealthCalled
    /\ HealthArg("liquidity", "current_ratio") = <<3, 2>>
    /\ HealthArg("profitability", "net_profit_margin") = <<10, 1>>
    /\ HealthArg("leverage", "debt_to_equity") = <<1, 1>>
    /\ HealthArg("efficiency", "asset_turnover") = <<1, 1>>
    /\ ArgNetCashFlow = 1
    /\ ret.kind = "return"
    /\ ret.value.breakdown =
        [liquidity |-> 20, profitability |-> 20, leverage |-> 15, efficiency |-> 10,
         cash_flow |-> 10]

-----------------------------------------------------------------------------
(* Properties of generate_improvement_suggestions *)

SuggestionsCalled == call.fn = "generate_improvement_suggestions"

CannedNames ==
    {"payment_history", "credit_utilization", "liquidity", "profitability", "stability"}

CannedSentence(name) ==
    CASE name = "payment_history" ->
            "Maintain consistent payment schedules to vendors and creditors"
      [] name = "credit_utilization" ->
            "Reduce debt levels or increase equity to improve leverage ratios"
      [] name = "liquidity" ->
            "Build cash reserves and improve working capital management"
      [] name = "profitability" ->
            "Focus on increasing profit margins through cost optimization or revenue growth"
      [] name = "stability" ->
            "Continue building business track record and growing revenue"

\* C25: generate_improvement_suggestions returns exactly one string per weakness, in the
\* same order, so the result is as long as the weaknesses: the canned sentence for a
\* mapped name and 'Improve <name>' for any other; an empty list gives an empty list.
\* The list calculate_credit_score returns is as long as its list of weaknesses.
C25_OneSuggestionPerWeakness ==
    /\ SuggestionsCalled =>
        LET weaknesses == call.args[1]
        IN  /\ ret.kind = "return"
            /\ Len(ret.value) = Len(weaknesses)
            /\ \A i \in 1..Len(weaknesses) :
                IF weaknesses[i] \in CannedNames
                THEN ret.value[i] = CannedSentence(weaknesses[i])
                ELSE ret.value[i] = <<"Improve ", weaknesses[i]>>
            /\ weaknesses = <<>> => ret.value = <<>>
    /\ (CreditCalled /\ ret.kind = "return") =>
        Len(ret.value.improvement_suggestions) = Len(ret.value.weaknesses)

\* an unmapped name between two mapped ones
C25_Witness ==
    /\ SuggestionsCalled
    /\ call.args[1] = <<"liquidity", "cash_flow", "stability">>
    /\ ret.kind = "return"
    /\ ret.value = <<"Build cash reserves and improve working capital management",
                     <<"Improve ", "cash_flow">>,
                     "Continue building business track record and growing revenue">>

-----------------------------------------------------------------------------
(* Properties of the efficiency ratios *)

\* the current-asset labels that name receivables, among the labels of the statements
ReceivableLabels == {L_receivable, L_AccountsReceivable}

ArgCostOfGoodsSold ==
    IF "expenses" \in DOMAIN ArgProfitLoss
       /\ "cost_of_goods_sold" \in DOMAIN ArgProfitLoss.expenses
    THEN ArgProfitLoss.expenses.cost_of_goods_sold
    ELSE 0

\* days * turnover = 365
IsDaysOf(days, turnover) ==
    IsNum(days) /\ days[1] * turnover[1] = 365 * days[2] * turnover[2]

\* C26: asset_turnover is total_revenue / total_assets, receivables_turnover is
\* total_revenue / receivables (the current-asset items labelled 'receivable'),
\* days_sales_outstanding is 365 / receivables_turnover, inventory_turnover is
\* cost_of_goods_sold / inventory (the items labelled 'inventory') and
\* days_inventory_outstanding is 365 / inventory_turnover, each whenever its denominator
\* is > 0; a days value is 0 whenever its turnover is 0
C26_EfficiencyRatios ==
    RatiosReturned =>
        LET efficiency == ret.value.efficiency
            receivables == SumOfLabels(ArgCurrentAssets, ReceivableLabels)
            inventory == SumOfLabels(ArgCurrentAssets, InventoryLabels)
        IN  /\ ArgTotalAssets > 0 =>
                IsQuotient(efficiency.asset_turnover, ArgTotalRevenue, ArgTotalAssets)
            /\ receivables > 0 =>
                IsQuotient(efficiency.receivables_turnover, ArgTotalRevenue, receivables)
            /\ inventory > 0 =>
                IsQuotient(efficiency.inventory_turnover, ArgCostOfGoodsSold, inventory)
            /\ efficiency.receivables_turnover[1] > 0 =>
                IsDaysOf(efficiency.days_sales_outstanding, efficiency.receivables_turnover)
            /\ efficiency.inventory_turnover[1] > 0 =>
                IsDaysOf(efficiency.days_inventory_outstanding,
                         efficiency.inventory_turnover)
            /\ efficiency.receivables_turnover[1] = 0 =>
                efficiency.days_sales_outstanding = <<0, 1>>
            /\ efficiency.inventory_turnover[1] = 0 =>
                efficiency.days_inventory_outstanding = <<0, 1>>

\* the worked example: revenue 1000 over receivables 30 and assets 500, cost of goods
\* sold 600 over inventory 20
C26_Witness ==
    /\ RatiosReturned
    /\ ArgBalanceSheet = BS_Example
    /\ ArgProfitLoss = PL_Example
    /\ ret.value.efficiency =
        [asset_turnover |-> <<2, 1>>,
         receivables_turnover |-> <<100, 3>>,
         days_sales_outstanding |-> <<219, 20>>,
         inventory_turnover |-> <<30, 1>>,
         days_inventory_outstanding |-> <<73, 6>>]

\* a turnover of 0 although its denominator is positive: no revenue over receivables
C26_WitnessZeroTurnover ==
    /\ RatiosReturned
    /\ SumOfLabels(ArgCurrentAssets, ReceivableLabels) > 0
    /\ ret.value.efficiency.receivables_turnover = <<0, 1>>
    /\ ret.value.efficiency.days_sales_outstanding = <<0, 1>>

-----------------------------------------------------------------------------
(* The clamp of the credit score *)

\* C27: before clamping, the sum of the five sub-scores is always between 320
\* (150 + 80 + 60 + 0 + 30) and 900, so the clamp never changes it and the score always
\* equals the sum of the breakdown scores
C27_ClampNeverActs ==
    (CreditCalled /\ ret.kind = "return") =>
        LET sum == BreakdownSum(ret.value.breakdown)
        IN  /\ sum >= 150 + 80 + 60 + 0 + 30
            /\ sum <= 900
            /\ ret.value.score = sum

\* every sub-score at its minimum: no transactions, a debt-to-equity above 2, no
\* liquidity ratios, no margin, founded today with no revenue on record
C27_Witness ==
    /\ CreditCalled
    /\ ret.kind = "return"
    /\ ret.value.breakdown.payment_history.score = 150
    /\ ret.value.breakdown.credit_utilization.score = 80
    /\ ret.value.breakdown.liquidity.score = 60
    /\ ret.value.breakdown.profitability.score = 0
    /\ ret.value.breakdown.business_stability.score = 30
    /\ ret.value.score = 320

-----------------------------------------------------------------------------
(* Companies without positive equity *)

StatementsScored == call.fn = "score_statements" /\ ret.kind = "return"

\* total_equity as recorded on the balance sheet of the call, if it is recorded
ArgEquityRecorded ==
    /\ "balance_sheet" \in DOMAIN call.args[1]
    /\ "equity" \in DOMAIN call.args[1].balance_sheet
    /\ "total_equity" \in DOMAIN call.args[1].balance_sheet.equity

ArgNoPositiveEquity ==
    ArgEquityRecorded => call.args[1].balance_sheet.equity.total_equity <= 0

\* C28: whenever total_equity is zero, negative or absent, calculate_leverage_ratios
\* yields debt_to_equity = 0 whatever total_liabilities is, so
\* calculate_credit_utilization_score returns 200 ('No debt') and the leverage entry of
\* the health breakdown is its maximum, 20
C28_NoEquityScoresAsNoDebt ==
    (StatementsScored /\ ArgNoPositiveEquity) =>
        /\ ret.value.ratios.leverage.debt_to_equity = <<0, 1>>
        /\ ret.value.utilization.score = 200
        /\ ret.value.utilization.details.status = "No debt - excellent"
        /\ ret.value.health.breakdown.leverage = 20

\* liabilities of 500 against an equity of -450
C28_Witness ==
    /\ StatementsScored
    /\ ArgEquityRecorded
    /\ call.args[1].balance_sheet.equity.total_equity = -450
    /\ call.args[1].balance_sheet.liabilities.total_liabilities = 500
    /\ ret.value.utilization.score = 200
    /\ ret.value.health.breakdown.leverage = 20

\* liabilities on record without any equity on record
C28_WitnessAbsent ==
    /\ StatementsScored
    /\ ~ArgEquityRecorded
    /\ ArgTotalLiabilities > 0
    /\ ret.value.utilization.score = 200

-----------------------------------------------------------------------------
(* One bucket per transaction *)

\* the keyword groups, numbered in the order of the chain (1 revenue; 2 expense, cost,
\* salary; 3 asset, equipment, investment; 4 loan, equity, financing), whose keywords
\* the text of each category of the transaction inputs contains
GroupsOfCategory(category) ==
    CASE category = cat_Revenue -> {1}
      [] category = cat_cost_of_revenue -> {1, 2}
      [] category \in {cat_expense, cat_Salary} -> {2}
      [] category = cat_equipment_loan -> {3, 4}
      [] category = cat_loan -> {4}
      [] OTHER -> {}

FirstGroup(category) ==
    LET groups == GroupsOfCategory(category)
    IN  IF groups = {} THEN 0 ELSE CHOOSE g \in groups : \A h \in groups : g <= h

Magnitude(x) == IF x < 0 THEN -x ELSE x

\* the sum over rows of what each row whose first group is g appends: an absolute
\* amount for the outflow groups 2 and 3, the stored amount for 1 and 4
RECURSIVE FirstGroupSum(_, _, _)
FirstGroupSum(txns, rows, g) ==
    IF rows = {} THEN 0
    ELSE LET t == CHOOSE x \in rows : TRUE
             amount == IF g \in {2, 3} THEN Magnitude(t.amount) ELSE t.amount
         IN  (IF FirstGroup(t.category) = g THEN txns[t] * amount ELSE 0)
             + FirstGroupSum(txns, rows \ {t}, g)

\* the absolute amounts of all rows, each stored copy counted once
RECURSIVE MagnitudeSum(_, _)
MagnitudeSum(txns, rows) ==
    IF rows = {} THEN 0
    ELSE LET t == CHOOSE x \in rows : TRUE
         IN  txns[t] * Magnitude(t.amount) + MagnitudeSum(txns, rows \ {t})

\* C29: analyze_cash_flow assigns each transaction to at most one bucket, by the first
\* matching keyword group in the fixed order revenue; expense/cost/salary;
\* asset/equipment/investment; loan/equity/financing: a category holding keywords of
\* several groups ('equipment loan', 'cost of revenue') is counted only in the earliest
\* of them, so the four buckets together never hold more than the transactions of the
\* window
C29_AtMostOneBucket ==
    CashFlowAnalysed =>
        LET v == ret.value
            txns == call.args[1]
        IN  /\ v.operating_cash_flow.inflows = FirstGroupSum(txns, ArgWindow, 1)
            /\ v.operating_cash_flow.outflows = FirstGroupSum(txns, ArgWindow, 2)
            /\ v.investing_cash_flow.outflows = FirstGroupSum(txns, ArgWindow, 3)
            /\ v.financing_cash_flow.inflows = FirstGroupSum(txns, ArgWindow, 4)
            /\ Magnitude(v.operating_cash_flow.inflows) + v.operating_cash_flow.outflows
               + v.investing_cash_flow.outflows + Magnitude(v.financing_cash_flow.inflows)
                  <= MagnitudeSum(txns, ArgWindow)
            /\ (\A t \in ArgWindow : t.category = cat_equipment_loan)
                  => v.financing_cash_flow.inflows = 0
            /\ (\A t \in ArgWindow : t.category = cat_cost_of_revenue)
                  => v.operating_cash_flow.outflows = 0

\* an 'equipment loan' of 500 and a 'cost of revenue' of 300: the first is an investing
\* outflow only, the second an operating inflow only
C29_Witness ==
    /\ CashFlowAnalysed
    /\ call.args[1] = (TxnRow(1, -30, cat_equipment_loan, 500) :> 1)
                      @@ (TxnRow(1, -30, cat_cost_of_revenue, 300) :> 1)
    /\ ret.value.investing_cash_flow.outflows = 500
    /\ ret.value.financing_cash_flow.inflows = 0
    /\ ret.value.operating_cash_flow.inflows = 300
    /\ ret.value.operating_cash_flow.outflows = 0

-----------------------------------------------------------------------------
(* Monotonicity of the credit score *)

\* values a ratio may be raised to, in hundredths
RaisedRatios ==
    [current_ratio |-> {100, 150, 200, 300},
     quick_ratio |-> {75, 100, 150, 300},
     net_profit_margin |-> {1, 500, 1000, 1500, 2000, 3000},
     debt_to_equity |-> {1, 49, 50, 51, 100, 101, 200, 201, 300}]

\* founding days and revenues a company may be moved to
EarlierFoundings == {-364, -365, -1095, -1825, -3650, -7300}
HigherRevenues == {1, 1000000, 5000000, 10000000, 20000000}

\* transaction tables of company 1 with more rows
LargerSamples == {TxnRow(1, 0, kw_revenue, 1000) :> n : n \in {1, 9, 10, 11, 100, 101}}

HasRatio(fd, group, name) ==
    /\ "ratios" \in DOMAIN fd
    /\ group \in DOMAIN fd.ratios
    /\ name \in DOMAIN fd.ratios[group]

\* the financial_data of the call with one ratio replaced by a greater value
WithGreater(fd, group, name) ==
    IF HasRatio(fd, group, name)
    THEN {[fd EXCEPT !.ratios[group][name] = H(h)] :
            h \in {x \in RaisedRatios[name] :
                    x * fd.ratios[group][name][2] > 100 * fd.ratios[group][name][1]}}
    ELSE {}

\* C30: the credit score is monotone: with the other inputs fixed, it never decreases
\* when current_ratio, quick_ratio, net_profit_margin, the number of sampled
\* transactions, the years in business or annual_revenue increases, and never increases
\* when debt_to_equity increases over values >= 0
C30_ScoreIsMonotone ==
    (CreditCalled /\ ret.kind = "return") =>
        LET comps == call.args[1]
            txns == call.args[2]
            today == call.args[3]
            id == call.args[4]
            fd == call.args[5]
            company == comps[id]
            score == ret.value.score
        IN  /\ \A q \in {<<"liquidity", "current_ratio">>, <<"liquidity", "quick_ratio">>,
                         <<"profitability", "net_profit_margin">>} :
                \A greater \in WithGreater(fd, q[1], q[2]) :
                    calculate_credit_score(comps, txns, today, id, greater).value.score
                        >= score
            /\ (HasRatio(fd, "leverage", "debt_to_equity")
                /\ fd.ratios.leverage.debt_to_equity[1] >= 0) =>
                \A greater \in WithGreater(fd, "leverage", "debt_to_equity") :
                    calculate_credit_score(comps, txns, today, id, greater).value.score
                        <= score
            /\ \A larger \in LargerSamples :
                CountOf(larger, DOMAIN larger, id) > CountOf(txns, DOMAIN txns, id) =>
                    calculate_credit_score(comps, larger, today, id, fd).value.score
                        >= score
            /\ company.founded_date # None =>
                \A f \in {x \in EarlierFoundings : x < company.founded_date[1]} :
                    calculate_credit_score([comps EXCEPT ![id].founded_date = Some(f)],
                                           txns, today, id, fd).value.score >= score
            /\ company.annual_revenue # None =>
                \A r \in {x \in HigherRevenues : x > company.annual_revenue[1]} :
                    calculate_credit_score([comps EXCEPT ![id].annual_revenue = Some(r)],
                                           txns, today, id, fd).value.score >= score

\* a call in which every input can still be raised: each ratio just under a tier, nine
\* transactions, founded today, a revenue under the top tier
C30_Witness ==
    /\ CreditCalled
    /\ ret.kind = "return"
    /\ HasRatio(call.args[5], "liquidity", "current_ratio")
    /\ call.args[5].ratios.liquidity.current_ratio = <<99, 100>>
    /\ call.args[5].ratios.liquidity.quick_ratio = <<37, 50>>
    /\ call.args[5].ratios.profitability.net_profit_margin = <<1, 100>>
    /\ call.args[5].ratios.leverage.debt_to_equity = <<49, 100>>
    /\ CountOf(call.args[2], DOMAIN call.args[2], call.args[4]) = 9
    /\ call.args[1][call.args[4]].founded_date = Some(call.args[3])
    /\ call.args[1][call.args[4]].annual_revenue = Some(5000000)
    /\ ret.value.score = 200 + 180 + (30 + 30) + 50 + (10 + 40)

=============================================================================
